---- MODULE Spec2Model ----
(***************************************************************************)
(* Scene store, command stack and pointer-gesture state machine of the     *)
(* infographics editor (src/stores/InfographicsStore.js,                   *)
(* src/stores/commands.js and the editor page src/unnamed/part_002).       *)
(*                                                                         *)
(* Conventions                                                             *)
(*  - An optional JavaScript field is a sequence of length 0 (absent or    *)
(*    undefined) or 1 (present): rotation = <<>> or <<90>>.                *)
(*  - Ids are tuples of strings and numbers: <<"t1">> is a block id,        *)
(*    <<"t1", 1>> the id of its first copy, <<"g-", 1>> a group id made by  *)
(*    the editor ("g-" + a fresh suffix).  groupId = NoGroup stands for an  *)
(*    absent / undefined groupId.                                          *)
(*  - crop = <<>> stands for an absent crop and for the empty object {}:   *)
(*    every reader goes through getCropValues or JSON.stringify of         *)
(*    (crop ? {...crop} : {}), which do not tell them apart.               *)
(*  - Lengths are pixels and angles are degrees, both integers; a handler  *)
(*    whose JavaScript result would not be an integer is not taken (see    *)
(*    the Integral guards).                                                *)
(*  - One page (the active page); blocks is its ordered block list.        *)
(***************************************************************************)
EXTENDS Integers, Sequences, FiniteSets, TLC

VARIABLES
    blocks,         \* store.activePage.blocks: sequence of block records
    groups,         \* store.groups: sequence of group records
    undoStack,      \* store.undoStack: sequence of command records
    redoStack,      \* store.redoStack
    interaction,    \* interactionRef.current: <<>> (null) or <<session>>
    moveListeners,  \* registrations of onDocPointerMove on document
    upListeners,    \* registrations of onDocPointerUp on document
    measurementRAFRef, \* measurementRAFRef.current: <<>> (null) or <<handle>>
    frameCallbacks, \* handles of the callbacks waiting for the next animation frame
    editingBlockId, \* editingBlockId: <<>> (null) or <<id>> of the text block being edited
    editingOriginalRef, \* editingOriginalRef.current: block id -> content recorded for it
    last,           \* history variable: what the last step did
    entry,          \* history variable: the scene at the last pointer-down
    budget          \* remaining steps of each bounded kind

storeVars == <<blocks, groups, undoStack, redoStack>>
sessionVars == <<interaction, moveListeners, upListeners>>
frameVars == <<measurementRAFRef, frameCallbacks>>
editVars == <<editingBlockId, editingOriginalRef>>
vars == <<storeVars, sessionVars, frameVars, editVars, last, entry, budget>>

----------------------------------------------------------------------------
(* Generic helpers *)

Range(s) == {s[i] : i \in DOMAIN s}

Max2(a, b) == IF a >= b THEN a ELSE b
Min2(a, b) == IF a <= b THEN a ELSE b

\* JavaScript values of a property that may be missing: undefined, null or
\* a string.
JsUndefined == <<"undefined">>
JsNull == <<"null">>
JsString(c) == <<"string", c>>

\* a ?? d on such a value
Nullish(v, d) == IF v \in {JsUndefined, JsNull} THEN d ELSE v[2]

\* editingOriginalRef.current before any edit: {}
NoOriginals == [id \in {} |-> JsUndefined]

\* JavaScript's a ?? d on an optional value.
OrElse(o, d) == IF o = <<>> THEN d ELSE o[1]

\* Array.prototype.filter
RECURSIVE FilterSeq(_, _)
FilterSeq(s, keep) ==
    IF s = <<>> THEN <<>>
    ELSE (IF Head(s) \in keep THEN <<Head(s)>> ELSE <<>>) \o FilterSeq(Tail(s), keep)

\* Array.from(new Set(s)): first occurrences, in order
RECURSIVE Dedup(_)
Dedup(s) ==
    IF s = <<>> THEN <<>>
    ELSE <<Head(s)>> \o Dedup(FilterSeq(Tail(s), Range(Tail(s)) \ {Head(s)}))

\* Object.assign(target, patch): the patch's keys overwrite the target's.
Merge(target, patch) ==
    [k \in DOMAIN target |-> IF k \in DOMAIN patch THEN patch[k] ELSE target[k]]

\* array.splice(idx, 0, item) on a copy; JavaScript clamps idx to the length.
InsertAt(s, idx, item) ==
    LET i == Min2(idx, Len(s))
    IN  SubSeq(s, 1, i) \o <<item>> \o SubSeq(s, i + 1, Len(s))

\* { ...a, ...b } on maps keyed by id
MapMerge(a, b) ==
    [k \in (DOMAIN a) \cup (DOMAIN b) |-> IF k \in DOMAIN b THEN b[k] ELSE a[k]]

EmptyMap == [k \in {} |-> 0]

NoGroup == <<>>

----------------------------------------------------------------------------
(* Scene store: src/stores/InfographicsStore.js.  A store value is the     *)
(* record [blocks, groups, undoStack, redoStack]; every operation returns  *)
(* the store it leaves.                                                    *)

Store == [blocks |-> blocks, groups |-> groups,
          undoStack |-> undoStack, redoStack |-> redoStack]

\* the part of a store the user sees
Scene(s) == [blocks |-> s.blocks, groups |-> s.groups]

\* index of the first block with this id in the page, 0 when there is none
BlockIndex(bs, id) ==
    IF \E i \in DOMAIN bs : bs[i].id = id
    THEN CHOOSE i \in DOMAIN bs : bs[i].id = id /\ \A j \in 1..(i - 1) : bs[j].id # id
    ELSE 0

HasBlock(s, id) == BlockIndex(s.blocks, id) # 0

getBlockById(s, id) == s.blocks[BlockIndex(s.blocks, id)]

GroupIndex(gs, id) ==
    IF \E i \in DOMAIN gs : gs[i].id = id
    THEN CHOOSE i \in DOMAIN gs : gs[i].id = id /\ \A j \in 1..(i - 1) : gs[j].id # id
    ELSE 0

HasGroup(s, id) == GroupIndex(s.groups, id) # 0

getGroupById(s, id) == s.groups[GroupIndex(s.groups, id)]

updateBlock(s, id, patch) ==
    LET i == BlockIndex(s.blocks, id)
    IN  IF i = 0 THEN s
        ELSE [s EXCEPT !.blocks[i] = Merge(s.blocks[i], patch)]

\* Object.entries(map).forEach(([id, patch]) => store.updateBlock(id, patch));
\* the keys are distinct ids, so the order of the entries does not matter.
RECURSIVE ApplyPatches(_, _)
ApplyPatches(s, map) ==
    IF DOMAIN map = {} THEN s
    ELSE LET id == CHOOSE k \in DOMAIN map : TRUE
         IN  ApplyPatches(updateBlock(s, id, map[id]),
                          [k \in (DOMAIN map) \ {id} |-> map[k]])

\* set or clear groupId on the (first) block with each listed id
RECURSIVE SetGroupIds(_, _, _)
SetGroupIds(s, ids, gid) ==
    IF ids = <<>> THEN s
    ELSE SetGroupIds(updateBlock(s, Head(ids), [groupId |-> gid]), Tail(ids), gid)

DetachGroupIds_None(s, ids, gid) == s

\* "if (b && b.groupId === groupId) delete b.groupId" for each listed id
RECURSIVE DetachGroupIds(_, _, _)
DetachGroupIds(s, ids, gid) ==
    IF ids = <<>> THEN s
    ELSE LET i == BlockIndex(s.blocks, Head(ids))
             s1 == IF i # 0 /\ s.blocks[i].groupId = gid
                   THEN updateBlock(s, Head(ids), [groupId |-> NoGroup])
                   ELSE s
         IN  DetachGroupIds(s1, Tail(ids), gid)

ensureGroupRemovedForBlock_DropsEmpty(s, blockId) ==
    [s EXCEPT !.groups =
        SelectSeq([i \in DOMAIN s.groups |->
                      [s.groups[i] EXCEPT !.childIds =
                          FilterSeq(s.groups[i].childIds,
                                    Range(s.groups[i].childIds) \ {blockId})]],
                  LAMBDA g : g.childIds # <<>>)]

ensureGroupRemovedForBlock(s, blockId) ==
    [s EXCEPT !.groups =
        [i \in DOMAIN s.groups |->
            [s.groups[i] EXCEPT !.childIds =
                FilterSeq(s.groups[i].childIds, Range(s.groups[i].childIds) \ {blockId})]]]

removeBlock(s, blockId) ==
    ensureGroupRemovedForBlock(
        [s EXCEPT !.blocks = SelectSeq(s.blocks, LAMBDA b : b.id # blockId)],
        blockId)

\* The group record addGroup builds from its argument, a map that may lack
\* any key but id: childIds and blockIds default to each other, then to [].
NormalizeGroup(spec) ==
    LET has(k) == k \in DOMAIN spec
    IN  [id           |-> spec.id,
         childIds     |-> IF has("childIds") THEN spec.childIds
                          ELSE IF has("blockIds") THEN spec.blockIds ELSE <<>>,
         blockIds     |-> IF has("blockIds") THEN spec.blockIds
                          ELSE IF has("childIds") THEN spec.childIds ELSE <<>>,
         position     |-> IF has("position") THEN spec.position ELSE [x |-> 0, y |-> 0],
         size         |-> IF has("size") THEN spec.size ELSE [width |-> 0, height |-> 0],
         rotation     |-> IF has("rotation") THEN spec.rotation ELSE 0,
         meta         |-> IF has("meta") THEN spec.meta ELSE EmptyMap,
         blockOffsets |-> IF has("blockOffsets") THEN spec.blockOffsets ELSE EmptyMap,
         \* addGroup stores no lock; an absent 'locked' reads as false
         locked       |-> FALSE]

\* group.meta is modelled by its only entry in scope, meta.originalZ (a map
\* block id -> zIndex, empty when meta is {}).
addGroup(s, spec) ==
    LET g == NormalizeGroup(spec)
    IN  SetGroupIds([s EXCEPT !.groups = Append(s.groups, g)], g.childIds, g.id)

\* updateGroup(groupId, patch): patch is a map over a subset of the keys
\* childIds, blockIds, position, size, rotation, meta, blockOffsets.
updateGroup(s, groupId, patch) ==
    LET gi == GroupIndex(s.groups, groupId)
        \* "if (patch.blockIds && !patch.childIds) patch.childIds = patch.blockIds"
        p == IF "blockIds" \in DOMAIN patch /\ "childIds" \notin DOMAIN patch
             THEN [k \in (DOMAIN patch) \cup {"childIds"} |->
                      IF k = "childIds" THEN patch.blockIds ELSE patch[k]]
             ELSE patch
    IN  IF gi = 0 THEN s
        ELSE
          LET g == s.groups[gi]
              hasIds == "childIds" \in DOMAIN p
              old == Dedup(g.childIds)
              new == IF hasIds THEN Dedup(p.childIds) ELSE <<>>
              s1 == IF hasIds
                    THEN DetachGroupIds(s, FilterSeq(old, Range(old) \ Range(new)), groupId)
                    ELSE s
              s2 == IF hasIds
                    THEN SetGroupIds(s1, FilterSeq(new, Range(new) \ Range(old)), groupId)
                    ELSE s1
              g1 == IF hasIds
                    THEN [g EXCEPT !.childIds = p.childIds, !.blockIds = p.childIds]
                    ELSE g
              allowed == {"position", "size", "rotation", "meta", "blockOffsets"}
              g2 == [k \in DOMAIN g1 |->
                        IF k \in allowed /\ k \in DOMAIN p THEN p[k] ELSE g1[k]]
          IN  [s2 EXCEPT !.groups[gi] = g2]

removeGroup(s, groupId) ==
    LET gi == GroupIndex(s.groups, groupId)
    IN  IF gi = 0 THEN s
        ELSE LET s1 == DetachGroupIds(s, s.groups[gi].childIds, groupId)
             IN  [s1 EXCEPT !.groups =
                     SubSeq(s1.groups, 1, gi - 1) \o SubSeq(s1.groups, gi + 1, Len(s1.groups))]

----------------------------------------------------------------------------
(* Commands: src/stores/commands.js.  A command is a record holding its    *)
(* kind, the payload its factory captured and the variables its closure    *)
(* assigns (oldBlock, oldIndex, oldGroups, createdGroup, ...).  Running    *)
(* do or undo yields [s: the store left, c: the command with its closure   *)
(* variables as left, threw: whether the call threw].                      *)

Ran(s, c) == [s |-> s, c |-> c, threw |-> FALSE]
Threw(s, c) == [s |-> s, c |-> c, threw |-> TRUE]

MapGet(m, k, d) == IF k \in DOMAIN m THEN m[k] ELSE d

MoveCommand(blockId, oldPos, newPos) ==
    [kind |-> "Move", blockId |-> blockId, oldP |-> oldPos, newP |-> newPos]

\* oldPos, newPos, oldFontSize, newFontSize: <<>> for null / undefined
ResizeCommand(blockId, oldSize, newSize, oldPos, newPos, oldFontSize, newFontSize) ==
    [kind |-> "Resize", blockId |-> blockId, oldS |-> oldSize, newS |-> newSize,
     oldP |-> oldPos, newP |-> newPos,
     oldFontSize |-> oldFontSize, newFontSize |-> newFontSize]

\* the patch  { size } + position if given + fontSize if not null
ResizePatch(size, pos, font) ==
    [k \in {"size"} \cup (IF pos # <<>> THEN {"position"} ELSE {})
                    \cup (IF font # <<>> THEN {"fontSize"} ELSE {}) |->
        CASE k = "size" -> size
          [] k = "position" -> pos[1]
          [] k = "fontSize" -> font]

\* childOld, childNew: maps id -> patch, EmptyMap for null
RotateCommand(blockId, oldRotation, newRotation, childOld, childNew) ==
    [kind |-> "Rotate", blockId |-> blockId, oldR |-> oldRotation, newR |-> newRotation,
     childOld |-> childOld, childNew |-> childNew]

CropCommand(blockId, oldCrop, newCrop) ==
    [kind |-> "Crop", blockId |-> blockId, oldC |-> oldCrop, newC |-> newCrop]

AddBlockCommand(createdBlock) ==
    [kind |-> "AddBlock", created |-> createdBlock]

TextChangeCommand(blockId, oldPatch, newPatch) ==
    [kind |-> "TextChange", blockId |-> blockId, oldP |-> oldPatch, newP |-> newPatch]

LockUnlockCommand(blockId, oldLocked, newLocked) ==
    [kind |-> "LockUnlock", blockId |-> blockId, oldL |-> oldLocked, newL |-> newLocked]

DeleteBlockCommand(blockId) ==
    [kind |-> "DeleteBlock", blockId |-> blockId, oldBlock |-> <<>>, oldIndex |-> -1]

\* groupMeta: a map over a subset of position, size, rotation, meta; EmptyMap for null
GroupCommand(groupId, blockIds, groupMeta) ==
    [kind |-> "Group", groupId |-> groupId, ids |-> blockIds, groupMeta |-> groupMeta,
     oldGroups |-> EmptyMap, createdGroup |-> FALSE]

\* blockIds: <<>> for null
UngroupCommand(groupId, blockIds) ==
    [kind |-> "Ungroup", groupId |-> groupId, blockIds |-> blockIds,
     oldGroups |-> EmptyMap, removedGroup |-> FALSE, oldGroupSnapshot |-> <<>>]

\* groupBefore, groupAfter: <<>> for null, else <<patch>>
GroupTransformCommand(groupId, groupBefore, groupAfter, childBefore, childAfter) ==
    [kind |-> "GroupTransform", groupId |-> groupId, gb |-> groupBefore, ga |-> groupAfter,
     cb |-> childBefore, ca |-> childAfter]

ZIndexCommand(oldMap, newMap) ==
    [kind |-> "ZIndex", o |-> oldMap, n |-> newMap]

\* a caller-supplied command object { do, undo } whose do or undo may throw
\* before it touches the store
CustomCommand(doThrows, undoThrows) ==
    [kind |-> "Custom", doThrows |-> doThrows, undoThrows |-> undoThrows]

\* page.blocks.map(b => ids.includes(b.id) ? {...b, groupId: gidOf[b.id]} : b)
MapGroupId(s, ids, gidOf) ==
    [s EXCEPT !.blocks =
        [i \in DOMAIN s.blocks |->
            IF s.blocks[i].id \in ids
            THEN [s.blocks[i] EXCEPT !.groupId = gidOf[s.blocks[i].id]]
            ELSE s.blocks[i]]]

\* the groupId each listed block carries (the last block wins on equal ids)
CaptureGroupIds(s, ids) ==
    [id \in {s.blocks[i].id : i \in {j \in DOMAIN s.blocks : s.blocks[j].id \in ids}} |->
        LET i == CHOOSE j \in DOMAIN s.blocks :
                    /\ s.blocks[j].id = id
                    /\ \A k \in DOMAIN s.blocks : s.blocks[k].id = id => k <= j
        IN  s.blocks[i].groupId]

ZPatches(zmap) == [id \in DOMAIN zmap |-> [zIndex |-> zmap[id]]]

DoGroup(s, c) ==
    LET ids == Range(c.ids)
        old == CaptureGroupIds(s, ids)
        s1 == MapGroupId(s, ids, [id \in ids |-> c.groupId])
        gm == c.groupMeta
    IN  IF ~HasGroup(s1, c.groupId)
        THEN Ran(addGroup(s1, [id       |-> c.groupId,
                               childIds |-> c.ids,
                               position |-> MapGet(gm, "position", [x |-> 0, y |-> 0]),
                               size     |-> MapGet(gm, "size", [width |-> 0, height |-> 0]),
                               rotation |-> MapGet(gm, "rotation", 0),
                               meta     |-> MapGet(gm, "meta", EmptyMap)]),
                 [c EXCEPT !.oldGroups = old, !.createdGroup = TRUE])
        ELSE Ran(updateGroup(s1, c.groupId,
                     [childIds |-> Dedup(getGroupById(s1, c.groupId).childIds \o c.ids)]),
                 [c EXCEPT !.oldGroups = old])

UndoGroup(s, c) ==
    LET ids == Range(c.ids)
        s1 == MapGroupId(s, ids, [id \in ids |-> MapGet(c.oldGroups, id, NoGroup)])
        gi == GroupIndex(s1.groups, c.groupId)
    IN  IF c.createdGroup THEN Ran(removeGroup(s1, c.groupId), c)
        ELSE IF gi = 0 THEN Ran(s1, c)
        ELSE Ran([s1 EXCEPT !.groups[gi].childIds =
                     FilterSeq(@, Range(@) \ ids)], c)

DoUngroup(s, c) ==
    LET hasG == HasGroup(s, c.groupId)
        g == getGroupById(s, c.groupId)
        partial == c.blockIds # <<>>
        targets == IF partial THEN Range(c.blockIds)
                   ELSE IF hasG THEN Range(g.childIds) ELSE {}
        hit == targets \cup {s.blocks[i].id :
                   i \in {j \in DOMAIN s.blocks : s.blocks[j].groupId = c.groupId}}
        old == CaptureGroupIds(s, hit)
        \* only blocks named in targets or carrying this groupId are rewritten
        s1 == [s EXCEPT !.blocks =
                  [i \in DOMAIN s.blocks |->
                      IF s.blocks[i].id \in targets \/ s.blocks[i].groupId = c.groupId
                      THEN [s.blocks[i] EXCEPT !.groupId = NoGroup]
                      ELSE s.blocks[i]]]
        c1 == [c EXCEPT !.oldGroups = old]
    IN  IF ~hasG THEN Ran(s1, c1)
        ELSE IF partial
        THEN Ran(updateGroup(s1, c.groupId,
                     [childIds |-> FilterSeq(g.childIds, Range(g.childIds) \ Range(c.blockIds))]),
                 [c1 EXCEPT !.oldGroupSnapshot = <<g>>])
        ELSE Ran(removeGroup(s1, c.groupId),
                 [c1 EXCEPT !.oldGroupSnapshot = <<g>>, !.removedGroup = TRUE])

UndoUngroup(s, c) ==
    LET s1 == MapGroupId(s, DOMAIN c.oldGroups, c.oldGroups)
    IN  IF c.oldGroupSnapshot = <<>> THEN Ran(s1, c)
        ELSE IF c.removedGroup THEN Ran(addGroup(s1, c.oldGroupSnapshot[1]), c)
        ELSE Ran(updateGroup(s1, c.groupId, [childIds |-> c.oldGroupSnapshot[1].childIds]), c)

DoDeleteBlock(s, c) ==
    LET idx == BlockIndex(s.blocks, c.blockId)
    IN  IF idx = 0 THEN Ran(s, c)
        ELSE Ran(ensureGroupRemovedForBlock(
                     [s EXCEPT !.blocks = SelectSeq(s.blocks, LAMBDA b : b.id # c.blockId)],
                     c.blockId),
                 [c EXCEPT !.oldIndex = idx - 1, !.oldBlock = <<s.blocks[idx]>>])

UndoDeleteBlock(s, c) ==
    IF c.oldBlock = <<>> THEN Ran(s, c)
    ELSE Ran([s EXCEPT !.blocks = InsertAt(s.blocks, c.oldIndex, c.oldBlock[1])], c)

----------------------------------------------------------------------------
(* The editor's inline compound commands (src/unnamed/part_002): objects   *)
(* { do(s), undo(s) } closing over values computed by the handler.         *)

isGroupId(id) == Len(id) > 0 /\ id[1] = "g-"

SetMin(S) == CHOOSE m \in S : \A n \in S : m <= n
SetMax(S) == CHOOSE m \in S : \A n \in S : m >= n

\* size?.width || 0 and size?.height || 0
WidthOf(b) == IF b.size = <<>> THEN 0 ELSE b.size[1].width
HeightOf(b) == IF b.size = <<>> THEN 0 ELSE OrElse(b.size[1].height, 0)

\* pageBlocks.reduce((m, b) => Math.max(m, b.zIndex ?? 0), 0)
MaxZ(s) == SetMax({0} \cup {s.blocks[i].zIndex : i \in DOMAIN s.blocks})

\* forEach over a list of ids of updateBlock(id, patchOf(id)) on existing blocks
RECURSIVE PatchEach(_, _, _)
PatchEach(s, ids, patchOf) ==
    IF ids = <<>> THEN s
    ELSE PatchEach(updateBlock(s, Head(ids), patchOf[Head(ids)]), Tail(ids), patchOf)

\* computeGroupBBox, store fallback: the box of the blocks' stored rectangles
computeGroupBBox(s, blockIds) ==
    LET chosen == {getBlockById(s, id) : id \in {i \in Range(blockIds) : HasBlock(s, i)}}
        left == SetMin({b.position.x : b \in chosen})
        top == SetMin({b.position.y : b \in chosen})
    IN  [left |-> left, top |-> top,
         width |-> SetMax({b.position.x + WidthOf(b) : b \in chosen}) - left,
         height |-> SetMax({b.position.y + HeightOf(b) : b \in chosen}) - top]

\* handleCreateGroup: the command built for the selected block ids
CreateGroupCommand(s, blockIds, groupId) ==
    LET bbox == computeGroupBBox(s, blockIds)
        position == [x |-> bbox.left, y |-> bbox.top]
        ids == Range(blockIds)
        originalZ == [id \in ids |-> IF HasBlock(s, id) THEN getBlockById(s, id).zIndex ELSE 0]
        first(id) == CHOOSE i \in DOMAIN blockIds :
                        blockIds[i] = id /\ \A j \in 1..(i - 1) : blockIds[j] # id
        \* position of id in blockIds sorted (stably) by original z
        rank(id) == Cardinality({o \in ids :
                        \/ originalZ[o] < originalZ[id]
                        \/ originalZ[o] = originalZ[id] /\ first(o) < first(id)})
        newZMap == [id \in ids |-> MaxZ(s) + 1 + rank(id)]
        blockOffsets == [id \in {i \in ids : HasBlock(s, i)} |->
                            [x |-> getBlockById(s, id).position.x - position.x,
                             y |-> getBlockById(s, id).position.y - position.y]]
    IN  [kind |-> "CreateGroup", groupId |-> groupId, newZMap |-> newZMap,
         originalZ |-> originalZ,
         groupMeta |-> [id |-> groupId, blockIds |-> blockIds, childIds |-> blockIds,
                        position |-> position,
                        size |-> [width |-> bbox.width, height |-> bbox.height],
                        rotation |-> 0, blockOffsets |-> blockOffsets, meta |-> originalZ]]

DoCreateGroup(s, c) ==
    Ran(addGroup(ApplyPatches(s, [id \in DOMAIN c.newZMap |->
                                     [groupId |-> c.groupId, zIndex |-> c.newZMap[id]]]),
                 c.groupMeta), c)

UndoCreateGroup_KeepsZ(s, c) == Ran(removeGroup(s, c.groupId), c)

UndoCreateGroup(s, c) ==
    Ran(ApplyPatches(removeGroup(s, c.groupId),
                     [id \in DOMAIN c.originalZ |->
                         [zIndex |-> c.originalZ[id], groupId |-> NoGroup]]), c)

\* group.childIds if non-empty, else group.blockIds
getGroupBlockIds(g) == IF g.childIds # <<>> THEN g.childIds ELSE g.blockIds

\* handleUngroup
UngroupGroupCommand(s, groupId) ==
    LET group == getGroupById(s, groupId)
        members == getGroupBlockIds(group)
    IN  [kind |-> "UngroupGroup", groupId |-> groupId, members |-> members,
         groupSnapshot |-> group,
         blockSnapshots |-> [id \in {i \in Range(members) : HasBlock(s, i)} |->
                                [zIndex |-> getBlockById(s, id).zIndex,
                                 groupId |-> getBlockById(s, id).groupId]],
         savedOriginalZ |-> group.meta]

DoUngroupGroup(s, c) ==
    Ran(PatchEach(removeGroup(s, c.groupId), c.members,
                  [id \in Range(c.members) |->
                      IF id \in DOMAIN c.savedOriginalZ
                      THEN [groupId |-> NoGroup, zIndex |-> c.savedOriginalZ[id]]
                      ELSE [groupId |-> NoGroup]]), c)

UndoUngroupGroup(s, c) ==
    Ran(ApplyPatches(addGroup(s, c.groupSnapshot),
                     [id \in DOMAIN c.blockSnapshots |->
                         IF c.blockSnapshots[id].groupId # NoGroup
                         THEN c.blockSnapshots[id]
                         ELSE [zIndex |-> c.blockSnapshots[id].zIndex]]), c)

\* handleDeleteActive on a group
DeleteGroupCommand(s, groupId) ==
    LET group == getGroupById(s, groupId)
        present == SelectSeq(group.childIds, LAMBDA id : HasBlock(s, id))
    IN  [kind |-> "DeleteGroup", groupId |-> groupId, groupSnapshot |-> group,
         blockSnapshots |-> [i \in DOMAIN present |->
                                [block |-> getBlockById(s, present[i]),
                                 index |-> BlockIndex(s.blocks, present[i]) - 1]]]

DoDeleteGroup(s, c) ==
    LET gone == {c.blockSnapshots[i].block.id : i \in DOMAIN c.blockSnapshots}
    IN  Ran(removeGroup([s EXCEPT !.blocks = SelectSeq(@, LAMBDA b : b.id \notin gone)],
                        c.groupId), c)

\* blocksCopy after re-inserting each snapshot at its recorded index
RECURSIVE Reinsert(_, _)
Reinsert(bs, snaps) ==
    IF snaps = <<>> THEN bs
    ELSE LET sn == Head(snaps)
             idx == IF sn.index >= 0 /\ sn.index <= Len(bs) THEN sn.index ELSE Len(bs)
         IN  Reinsert(IF \E i \in DOMAIN bs : bs[i].id = sn.block.id THEN bs
                      ELSE InsertAt(bs, idx, sn.block),
                      Tail(snaps))

UndoDeleteGroup(s, c) ==
    Ran(addGroup([s EXCEPT !.blocks = Reinsert(@, c.blockSnapshots)], c.groupSnapshot), c)

\* the id handleDuplicateBlock gives copy number n of a block
CopyId(id, n) == Append(id, n)

\* handleDuplicateBlock on a group; n numbers this duplication
DuplicateGroupCommand(s, groupId, newGroupId, n) ==
    LET group == getGroupById(s, groupId)
        originalChildIds == getGroupBlockIds(group)
        present == SelectSeq(originalChildIds, LAMBDA id : HasBlock(s, id))
        \* idx: position in originalChildIds (0-based) of the i-th present id
        idxOf(i) == (CHOOSE k \in DOMAIN originalChildIds :
                        /\ originalChildIds[k] = present[i]
                        /\ Cardinality({j \in 1..k : HasBlock(s, originalChildIds[j])}) = i) - 1
        \* Date.now() and Math.random() give every copy a suffix of its own
        newBlockIds == [i \in DOMAIN present |-> CopyId(present[i], 10 * n + i)]
        copies == [i \in DOMAIN present |->
                      LET orig == getBlockById(s, present[i])
                      IN  [orig EXCEPT !.id = newBlockIds[i],
                                       !.groupId = newGroupId,
                                       !.position = [x |-> orig.position.x + 16,
                                                     y |-> orig.position.y + 16],
                                       !.zIndex = orig.zIndex + 1 + idxOf(i)]]
        newBlockOffsets ==
            [nid \in {newBlockIds[i] : i \in {j \in DOMAIN present :
                                                 present[j] \in DOMAIN group.blockOffsets}} |->
                group.blockOffsets[SubSeq(nid, 1, Len(nid) - 1)]]
    IN  [kind |-> "DuplicateGroup", newGroupId |-> newGroupId, newBlockIds |-> newBlockIds,
         copies |-> copies,
         groupMeta |-> [group EXCEPT !.id = newGroupId,
                                     !.childIds = newBlockIds,
                                     !.blockIds = newBlockIds,
                                     !.blockOffsets = newBlockOffsets,
                                     !.position = [x |-> group.position.x + 16,
                                                   y |-> group.position.y + 16]]]

DoDuplicateGroup(s, c) ==
    Ran(addGroup([s EXCEPT !.blocks = @ \o c.copies], c.groupMeta), c)

UndoDuplicateGroup(s, c) ==
    Ran(removeGroup([s EXCEPT !.blocks = SelectSeq(@, LAMBDA b : b.id \notin Range(c.newBlockIds))],
                    c.newGroupId), c)

\* The command the toolbar's onLock builds: nextLocked and the lock states
\* of the selected groups and of the blocks they stand for, as found.
LockCommand(nextLocked, oldGroupStates, oldBlockStates) ==
    [kind |-> "ToggleLock", nextLocked |-> nextLocked,
     oldGroupStates |-> oldGroupStates, oldBlockStates |-> oldBlockStates]

\* "s.groups = s.groups.map(gg => gg.id === gid ? {...gg, locked} : gg)" for
\* every listed group that exists
SetGroupLocks(s, states) ==
    [s EXCEPT !.groups =
        [i \in DOMAIN s.groups |->
            IF s.groups[i].id \in DOMAIN states
            THEN [s.groups[i] EXCEPT !.locked = states[s.groups[i].id]]
            ELSE s.groups[i]]]

DoToggleLock(s, c) ==
    Ran(ApplyPatches(SetGroupLocks(s, [g \in DOMAIN c.oldGroupStates |-> c.nextLocked]),
                     [b \in DOMAIN c.oldBlockStates |-> [locked |-> c.nextLocked]]), c)

UndoToggleLock(s, c) ==
    Ran(ApplyPatches(SetGroupLocks(s, c.oldGroupStates),
                     [b \in DOMAIN c.oldBlockStates |-> [locked |-> c.oldBlockStates[b]]]), c)

\* cmd.do(store)
Do(s, c) ==
    CASE c.kind = "Move" -> Ran(updateBlock(s, c.blockId, [position |-> c.newP]), c)
      [] c.kind = "Resize" ->
            Ran(updateBlock(s, c.blockId, ResizePatch(c.newS, c.newP, c.newFontSize)), c)
      [] c.kind = "Rotate" ->
            Ran(ApplyPatches(updateBlock(s, c.blockId, [rotation |-> c.newR]), c.childNew), c)
      [] c.kind = "Crop" -> Ran(updateBlock(s, c.blockId, [crop |-> c.newC]), c)
      [] c.kind = "AddBlock" -> Ran([s EXCEPT !.blocks = Append(@, c.created)], c)
      [] c.kind = "TextChange" -> Ran(updateBlock(s, c.blockId, c.newP), c)
      [] c.kind = "LockUnlock" -> Ran(updateBlock(s, c.blockId, [locked |-> c.newL]), c)
      [] c.kind = "DeleteBlock" -> DoDeleteBlock(s, c)
      [] c.kind = "Group" -> DoGroup(s, c)
      [] c.kind = "Ungroup" -> DoUngroup(s, c)
      [] c.kind = "GroupTransform" ->
            Ran(ApplyPatches(IF c.ga # <<>> THEN updateGroup(s, c.groupId, c.ga[1]) ELSE s,
                             c.ca), c)
      [] c.kind = "ZIndex" -> Ran(ApplyPatches(s, ZPatches(c.n)), c)
      [] c.kind = "CreateGroup" -> DoCreateGroup(s, c)
      [] c.kind = "UngroupGroup" -> DoUngroupGroup(s, c)
      [] c.kind = "DeleteGroup" -> DoDeleteGroup(s, c)
      [] c.kind = "DuplicateGroup" -> DoDuplicateGroup(s, c)
      [] c.kind = "ToggleLock" -> DoToggleLock(s, c)
      [] c.kind = "Custom" -> IF c.doThrows THEN Threw(s, c) ELSE Ran(s, c)

\* cmd.undo(store)
Undo(s, c) ==
    CASE c.kind = "Move" -> Ran(updateBlock(s, c.blockId, [position |-> c.oldP]), c)
      [] c.kind = "Resize" ->
            Ran(updateBlock(s, c.blockId, ResizePatch(c.oldS, c.oldP, c.oldFontSize)), c)
      [] c.kind = "Rotate" ->
            Ran(ApplyPatches(updateBlock(s, c.blockId, [rotation |-> c.oldR]), c.childOld), c)
      [] c.kind = "Crop" -> Ran(updateBlock(s, c.blockId, [crop |-> c.oldC]), c)
      [] c.kind = "AddBlock" ->
            Ran([s EXCEPT !.blocks = SelectSeq(@, LAMBDA b : b.id # c.created.id)], c)
      [] c.kind = "TextChange" -> Ran(updateBlock(s, c.blockId, c.oldP), c)
      [] c.kind = "LockUnlock" -> Ran(updateBlock(s, c.blockId, [locked |-> c.oldL]), c)
      [] c.kind = "DeleteBlock" -> UndoDeleteBlock(s, c)
      [] c.kind = "Group" -> UndoGroup(s, c)
      [] c.kind = "Ungroup" -> UndoUngroup(s, c)
      [] c.kind = "GroupTransform" ->
            Ran(ApplyPatches(IF c.gb # <<>> THEN updateGroup(s, c.groupId, c.gb[1]) ELSE s,
                             c.cb), c)
      [] c.kind = "ZIndex" -> Ran(ApplyPatches(s, ZPatches(c.o)), c)
      [] c.kind = "CreateGroup" -> UndoCreateGroup(s, c)
      [] c.kind = "UngroupGroup" -> UndoUngroupGroup(s, c)
      [] c.kind = "DeleteGroup" -> UndoDeleteGroup(s, c)
      [] c.kind = "DuplicateGroup" -> UndoDuplicateGroup(s, c)
      [] c.kind = "ToggleLock" -> UndoToggleLock(s, c)
      [] c.kind = "Custom" -> IF c.undoThrows THEN Threw(s, c) ELSE Ran(s, c)

----------------------------------------------------------------------------
(* Command stack: InfographicsStore.js applyCommand / undo / redo.         *)

\* The statements after cmd.do(this) in the try block, r being the outcome of
\* the call; the catch block leaves the store as the throwing call left it.
pushApplied_KeepsRedo(r) ==
    IF r.threw THEN r.s
    ELSE [r.s EXCEPT !.undoStack = Append(@, r.c)]

pushApplied(r) ==
    IF r.threw THEN r.s
    ELSE [r.s EXCEPT !.undoStack = Append(@, r.c), !.redoStack = <<>>]

applyCommand(s, cmd) == pushApplied(Do(s, cmd))

\* redoStack.push(cmd) after cmd.undo(this), skipped when the call threw
pushUndone(r) ==
    IF r.threw THEN r.s
    ELSE [r.s EXCEPT !.redoStack = Append(@, r.c)]

undo_EmptyDropsRedo(s) ==
    IF s.undoStack = <<>> THEN [s EXCEPT !.redoStack = <<>>]
    ELSE pushUndone(Undo([s EXCEPT !.undoStack = SubSeq(@, 1, Len(@) - 1)],
                         s.undoStack[Len(s.undoStack)]))

\* the command is popped before the try block
undo(s) ==
    IF s.undoStack = <<>> THEN s
    ELSE pushUndone(Undo([s EXCEPT !.undoStack = SubSeq(@, 1, Len(@) - 1)],
                         s.undoStack[Len(s.undoStack)]))

\* undoStack.push(cmd) after cmd.do(this), skipped when the call threw
pushRedone(r) ==
    IF r.threw THEN r.s
    ELSE [r.s EXCEPT !.undoStack = Append(@, r.c)]

redo(s) ==
    IF s.redoStack = <<>> THEN s
    ELSE pushRedone(Do([s EXCEPT !.redoStack = SubSeq(@, 1, Len(@) - 1)],
                       s.redoStack[Len(s.redoStack)]))

canUndo(s) == Len(s.undoStack) > 0
canRedo(s) == Len(s.redoStack) > 0

----------------------------------------------------------------------------
(* Bounds and the initial project.                                         *)

MaxCommands == 2     \* commands applied through applyCommand by callers and handlers
MaxApiCalls == 1     \* direct calls of addGroup / updateGroup / removeGroup / removeBlock
MaxGroups == 2       \* group ids the editor generates

Size(w, h) == <<[width |-> w, height |-> <<h>>]>>
WidthOnly(w) == <<[width |-> w, height |-> <<>>]>>
Pos(x, y) == [x |-> x, y |-> y]

Block(id, type, position, size, rotation, fontSize, zIndex) ==
    [id |-> id, type |-> type, position |-> position, size |-> size,
     rotation |-> rotation, fontSize |-> fontSize, crop |-> <<>>,
     locked |-> FALSE, groupId |-> NoGroup, zIndex |-> zIndex, content |-> "text"]

\* A page as the initialisation effect leaves it: pixel positions, a zIndex on
\* every block, a pixel width and a fontSize on every text block; images carry
\* size and rotation and no crop, text blocks no rotation and no height.
InitialBlocks ==
    << Block(<<"t1">>, "text", Pos(20, 20), WidthOnly(100), <<>>, <<20>>, 1),
       Block(<<"i1">>, "image", Pos(40, 80), Size(80, 40), <<0>>, <<>>, 2),
       Block(<<"i2">>, "image", Pos(100, 100), Size(40, 80), <<90>>, <<>>, 3) >>

\* The step taken last: the operation, the command it handed to the stack,
\* the store before it, the scenes before and after a command that was pushed
\* (chain 1: just pushed, 2: undone right after, 3: redone right after that),
\* and in 'p' a pointer event's position or a direct call's argument, with
\* the number of listener calls.
NoStep == [op |-> "init", cmd |-> <<>>, pre |-> <<>>, chain |-> 0, s0 |-> <<>>, s1 |-> <<>>,
           p |-> <<>>, calls |-> 0]

\* an operation other than a pointer event happened since pointer-down
Touch(e) == IF e = <<>> THEN e ELSE <<[e[1] EXCEPT !.pure = FALSE]>>

Init ==
    /\ blocks = InitialBlocks
    /\ groups = <<>>
    /\ undoStack = <<>>
    /\ redoStack = <<>>
    /\ interaction = <<>>
    /\ moveListeners = 0
    /\ upListeners = 0
    /\ measurementRAFRef = <<>>
    /\ frameCallbacks = {}
    /\ editingBlockId = <<>>
    /\ editingOriginalRef = NoOriginals
    /\ last = NoStep
    /\ entry = <<>>
    /\ budget = [cmds |-> MaxCommands, api |-> MaxApiCalls, groups |-> MaxGroups,
                 gestures |-> 0, each |-> 0, moves |-> 0]

SetStore(s) ==
    /\ blocks' = s.blocks
    /\ groups' = s.groups
    /\ undoStack' = s.undoStack
    /\ redoStack' = s.redoStack

\* the group id the editor generates next ("g-" + a fresh suffix)
FreshGroupId == <<"g-", MaxGroups - budget.groups + 1>>

----------------------------------------------------------------------------
(* Callers of the store: commands built from the current scene.            *)

ApiGroupIds == {<<"g-", 91>>, <<"g-", 92>>}
IdLists == {<< <<"t1">>, <<"i1">> >>, << <<"i1">>, <<"i2">> >>}

Shift(p, dx, dy) == [x |-> p.x + dx, y |-> p.y + dy]

\* commands whose 'before' payload is the target's current value
TransformCommands(s) ==
    LET B == Range(s.blocks)
        G == Range(s.groups)
    IN  {MoveCommand(b.id, b.position, Shift(b.position, 10, 0)) : b \in B}
        \cup {ResizeCommand(b.id, b.size, Size(WidthOf(b) + 10, HeightOf(b) + 10),
                            <<>>, <<>>, b.fontSize, b.fontSize) : b \in {c \in B : c.size # <<>>}}
        \cup {ResizeCommand(b.id, b.size, Size(WidthOf(b) + 10, HeightOf(b) + 10),
                            <<b.position>>, <<Shift(b.position, -10, -10)>>,
                            b.fontSize, <<20>>) : b \in {c \in B : c.size # <<>>}}
        \cup {RotateCommand(b.id, b.rotation, <<OrElse(b.rotation, 0) + 90>>,
                            EmptyMap, EmptyMap) : b \in B}
        \cup {CropCommand(b.id, b.crop, <<[top |-> 10, right |-> 0, bottom |-> 0, left |-> 5]>>) :
                  b \in {c \in B : c.type = "image"}}
        \cup {ZIndexCommand([id \in {b.id} |-> b.zIndex], [id \in {b.id} |-> b.zIndex + 10]) :
                  b \in B}
        \cup {GroupTransformCommand(g.id,
                  <<[position |-> g.position, size |-> g.size, rotation |-> g.rotation]>>,
                  <<[position |-> Shift(g.position, 5, 5), size |-> g.size,
                     rotation |-> g.rotation + 90]>>,
                  [id \in {i \in Range(g.childIds) : HasBlock(s, i)} |->
                      [position |-> getBlockById(s, id).position]],
                  [id \in {i \in Range(g.childIds) : HasBlock(s, i)} |->
                      [position |-> Shift(getBlockById(s, id).position, 5, 5)]]) : g \in G}

TransformKinds == {"Move", "Resize", "Rotate", "Crop", "ZIndex", "GroupTransform"}

StructureCommands(s) ==
    {DeleteBlockCommand(b.id) : b \in Range(s.blocks)}
    \cup {GroupCommand(gid, ids, EmptyMap) : gid \in ApiGroupIds, ids \in IdLists}
    \cup {UngroupCommand(g.id, <<>>) : g \in Range(s.groups)}
    \cup {UngroupCommand(g.id, SubSeq(g.childIds, 1, 1)) :
              g \in {h \in Range(s.groups) : h.childIds # <<>>}}
    \cup (IF HasBlock(s, <<"n1">>) THEN {}
          ELSE {AddBlockCommand(Block(<<"n1">>, "text", Pos(10, 10), Size(240, 48),
                                      <<0>>, <<16>>, MaxZ(s) + 1))})
    \cup {CustomCommand(d, u) : d \in BOOLEAN, u \in BOOLEAN}

\* the store becomes s1, the outcome of applyCommand(cmd)
Applied(op, cmd, s1) ==
    /\ SetStore(s1)
    /\ last' = IF Len(s1.undoStack) = Len(undoStack) + 1
               THEN [op |-> op, cmd |-> <<cmd>>, pre |-> Store, chain |-> 1,
                     s0 |-> Scene(Store), s1 |-> Scene(s1), p |-> <<>>, calls |-> 0]
               ELSE [op |-> op, cmd |-> <<cmd>>, pre |-> Store, chain |-> 0,
                     s0 |-> <<>>, s1 |-> <<>>, p |-> <<>>, calls |-> 0]

AfterApply(op, cmd) == Applied(op, cmd, applyCommand(Store, cmd))

\* a caller runs store.applyCommand(cmd)
ApplyCommandCall ==
    /\ budget.cmds > 0
    /\ \E cmd \in TransformCommands(Store) \cup StructureCommands(Store) :
           AfterApply("applyCommand", cmd)
    /\ budget' = [budget EXCEPT !.cmds = @ - 1]
    /\ entry' = Touch(entry)
    /\ UNCHANGED <<sessionVars, frameVars, editVars>>

\* store.undo(), from the keyboard shortcut or a caller
Undone(s1) ==
    /\ SetStore(s1)
    /\ last' = [op |-> "undo",
                cmd |-> IF undoStack = <<>> THEN <<>> ELSE <<undoStack[Len(undoStack)]>>,
                pre |-> Store,
                chain |-> IF last.chain = 1 /\ Len(s1.redoStack) = Len(redoStack) + 1
                          THEN 2 ELSE 0,
                s0 |-> last.s0, s1 |-> last.s1, p |-> <<>>, calls |-> 0]

UndoCall ==
    /\ Undone(undo(Store))
    /\ entry' = Touch(entry)
    /\ UNCHANGED <<sessionVars, frameVars, editVars, budget>>

\* store.redo()
Redone(s1) ==
    /\ SetStore(s1)
    /\ last' = [op |-> "redo",
                cmd |-> IF redoStack = <<>> THEN <<>> ELSE <<redoStack[Len(redoStack)]>>,
                pre |-> Store,
                chain |-> IF last.chain = 2 /\ Len(s1.undoStack) = Len(undoStack) + 1
                          THEN 3 ELSE 0,
                s0 |-> last.s0, s1 |-> last.s1, p |-> <<>>, calls |-> 0]

RedoCall ==
    /\ Redone(redo(Store))
    /\ entry' = Touch(entry)
    /\ UNCHANGED <<sessionVars, frameVars, editVars, budget>>

\* a direct call of the store's API; the step records the call's argument
ApiStep(op, arg, s1) ==
    /\ budget.api > 0
    /\ SetStore(s1)
    /\ last' = [NoStep EXCEPT !.op = op, !.pre = Store, !.p = <<arg>>]
    /\ budget' = [budget EXCEPT !.api = @ - 1]
    /\ entry' = Touch(entry)
    /\ UNCHANGED <<sessionVars, frameVars, editVars>>

\* ids a caller may name: blocks and groups of the page, and ids that are
\* not (or no longer) in the store
ApiBlockIds == {blocks[i].id : i \in DOMAIN blocks} \cup {<<"t1">>, <<"n1">>}
ApiTargetGroupIds == {groups[i].id : i \in DOMAIN groups} \cup ApiGroupIds

\* child lists a caller may pass, one of them naming a block twice
ApiIdLists == IdLists \cup {<< <<"t1">>, <<"t1">> >>}

AddGroupCall ==
    \E gid \in ApiGroupIds, ids \in ApiIdLists :
        ApiStep("addGroup", [id |-> gid, childIds |-> ids],
                addGroup(Store, [id |-> gid, childIds |-> ids]))

UpdateGroupCall ==
    \E gid \in ApiTargetGroupIds, ids \in ApiIdLists \cup {<<>>} :
        ApiStep("updateGroup", [id |-> gid, childIds |-> ids],
                updateGroup(Store, gid, [childIds |-> ids]))

RemoveGroupCall ==
    \E gid \in ApiTargetGroupIds : ApiStep("removeGroup", gid, removeGroup(Store, gid))

RemoveBlockCall ==
    \E id \in ApiBlockIds : ApiStep("removeBlock", id, removeBlock(Store, id))

\* store.updateBlock(id, { locked: true })
UpdateBlockCall ==
    \E id \in ApiBlockIds :
        ApiStep("updateBlock", id, updateBlock(Store, id, [locked |-> TRUE]))

----------------------------------------------------------------------------
(* Editor handlers that build a compound command and apply it.             *)

\* handleCreateGroup with selectedIds = ids (block ids only, at least two)
handleCreateGroup ==
    /\ budget.cmds > 0 /\ budget.groups > 0
    /\ \E ids \in IdLists :
           /\ \E i \in DOMAIN ids : HasBlock(Store, ids[i])
           /\ AfterApply("createGroup", CreateGroupCommand(Store, ids, FreshGroupId))
    /\ budget' = [budget EXCEPT !.cmds = @ - 1, !.groups = @ - 1]
    /\ entry' = Touch(entry)
    /\ UNCHANGED <<sessionVars, frameVars, editVars>>

\* handleUngroup(groupId) on an existing group
handleUngroup ==
    /\ budget.cmds > 0
    /\ \E g \in Range(groups) : AfterApply("ungroup", UngroupGroupCommand(Store, g.id))
    /\ budget' = [budget EXCEPT !.cmds = @ - 1]
    /\ entry' = Touch(entry)
    /\ UNCHANGED <<sessionVars, frameVars, editVars>>

\* handleDeleteActive with activeId a group or a block
handleDeleteActive ==
    /\ budget.cmds > 0
    /\ \/ \E g \in Range(groups) :
              isGroupId(g.id) /\ AfterApply("deleteGroup", DeleteGroupCommand(Store, g.id))
       \/ \E b \in Range(blocks) : AfterApply("deleteBlock", DeleteBlockCommand(b.id))
    /\ budget' = [budget EXCEPT !.cmds = @ - 1]
    /\ entry' = Touch(entry)
    /\ editingBlockId' = <<>>
    /\ UNCHANGED <<sessionVars, frameVars, editingOriginalRef>>

\* handleDuplicateBlock(id) with id a group that has members
handleDuplicateGroup ==
    /\ budget.cmds > 0 /\ budget.groups > 0
    /\ \E g \in Range(groups) :
           /\ isGroupId(g.id)
           /\ getGroupBlockIds(g) # <<>>
           /\ AfterApply("duplicateGroup",
                  DuplicateGroupCommand(Store, g.id, FreshGroupId,
                                        MaxGroups - budget.groups + 1))
    /\ budget' = [budget EXCEPT !.cmds = @ - 1, !.groups = @ - 1]
    /\ entry' = Touch(entry)
    /\ UNCHANGED <<sessionVars, frameVars, editVars>>

----------------------------------------------------------------------------
(* The store and its callers, without pointer gestures.                    *)

NextStore ==
    \/ ApplyCommandCall
    \/ UndoCall
    \/ RedoCall
    \/ AddGroupCall
    \/ UpdateGroupCall
    \/ RemoveGroupCall
    \/ RemoveBlockCall
    \/ UpdateBlockCall
    \/ handleCreateGroup
    \/ handleUngroup
    \/ handleDeleteActive
    \/ handleDuplicateGroup

SpecStore == Init /\ [][NextStore]_vars

----------------------------------------------------------------------------
(* Editor gestures: src/unnamed/part_002 (beginInteraction,                *)
(* handlePointerMove, endInteraction) and src/unnamed/part_003.            *)
(* Lengths are pixels, angles degrees, crop insets percent.  The pointer   *)
(* events considered are those for which every value the handler computes  *)
(* is an integer; on these the integer arithmetic below is the handler's   *)
(* arithmetic.  Angles are multiples of 90.                                *)

\* canvasRef.current.getBoundingClientRect(): the canvas is CanvasWidth wide,
\* its height follows from the aspect ratio 1 / 2.12 (551.2, no gesture
\* considered here reaches the last pixel row)
CanvasWidth == 260
CanvasHeight == 551
CanvasLeft == 100
CanvasTop == 40

\* workspaceRef.current.getBoundingClientRect(): left 0, top 0 and this size
WorkspaceWidth == 460
WorkspaceHeight == 631

\* JavaScript's a % n
JsRem(a, n) == IF a >= 0 THEN a % n ELSE -((-a) % n)

\* Math.atan2(dy, dx) in degrees, for a vector along an axis
Atan2Deg(dy, dx) ==
    CASE dx > 0 /\ dy = 0 -> 0
      [] dx = 0 /\ dy > 0 -> 90
      [] dx < 0 /\ dy = 0 -> 180
      [] dx = 0 /\ dy < 0 -> -90
      [] dx = 0 /\ dy = 0 -> 0

\* Math.cos and Math.sin of a multiple of 90 degrees
CosDeg(d) == CASE JsRem(d, 360) = 0 -> 1
               [] JsRem(d, 360) \in {180, -180} -> -1
               [] OTHER -> 0
SinDeg(d) == CASE JsRem(d, 360) \in {90, -270} -> 1
               [] JsRem(d, 360) \in {-90, 270} -> -1
               [] OTHER -> 0

hasNumericSize(b) ==
    IF b.type = "text" THEN b.size # <<>>
    ELSE b.size # <<>> /\ b.size[1].height # <<>>

getCropValues(crop) ==
    IF crop = <<>> THEN [top |-> 0, right |-> 0, bottom |-> 0, left |-> 0] ELSE crop[1]

clampCropValue_NoClamp(value) == value

clampCropValue(value) == Min2(Max2(value, 0), 45)

\* handle.includes(part) for the handle ids of part_003
Includes(handle, part) ==
    handle # <<>> /\
    handle[1] \in CASE part = "left" -> {"left", "top-left", "bottom-left"}
                    [] part = "right" -> {"right", "top-right", "bottom-right"}
                    [] part = "top" -> {"top", "top-left", "top-right"}
                    [] part = "bottom" -> {"bottom", "bottom-left", "bottom-right"}

Abs(v) == IF v < 0 THEN -v ELSE v

\* the record beginInteraction keeps of a single block
blockSnapshot(b) ==
    [id |-> b.id, position |-> b.position,
     size |-> IF b.size = <<>> THEN Size(0, 0) ELSE b.size,
     rotation |-> OrElse(b.rotation, 0), fontSize |-> b.fontSize,
     type |-> b.type, crop |-> b.crop]

\* the record beginInteraction keeps of each existing member of a group
childSnapshots(s, ids) ==
    [i \in DOMAIN FilterSeq(ids, {id \in Range(ids) : HasBlock(s, id)}) |->
        LET b == getBlockById(s, FilterSeq(ids, {id \in Range(ids) : HasBlock(s, id)})[i])
        IN  [id |-> b.id, position |-> b.position,
             size |-> IF b.size = <<>> THEN Size(0, 0) ELSE b.size,
             rotation |-> OrElse(b.rotation, 0), fontSize |-> b.fontSize]]

\* offsets stored on the group, else computed from the members' positions
sessionOffsets(s, g) ==
    IF DOMAIN g.blockOffsets # {} THEN g.blockOffsets
    ELSE [id \in {i \in Range(g.childIds) : HasBlock(s, i)} |->
             [x |-> getBlockById(s, id).position.x - g.position.x,
              y |-> getBlockById(s, id).position.y - g.position.y]]

\* center, startAngle, initialRotation of a rotate session around the box
\* at position with the given width and height (<<>> when not computed)
rotationHelper(position, width, height, rotation, e) ==
    <<[center |-> [x |-> CanvasLeft + position.x + width \div 2,
                   y |-> CanvasTop + position.y + height \div 2],
       startAngle |-> Atan2Deg(e.y - (CanvasTop + position.y + height \div 2),
                               e.x - (CanvasLeft + position.x + width \div 2)),
       initialRotation |-> rotation]>>

\* The session beginInteraction(event, type, blockId, {handle}) stores in the
\* slot, <<>> when it returns without starting one.  A group session keeps the
\* cloned group under blockSnapshot and groupSnapshot alike.
beginInteraction(s, type, blockId, handle, e) ==
    IF isGroupId(blockId)
    THEN IF ~HasGroup(s, blockId) THEN <<>>
         ELSE LET g == getGroupById(s, blockId)
              IN  <<[type |-> type, blockId |-> blockId, startX |-> e.x, startY |-> e.y,
                     handle |-> handle, blockSnapshot |-> g,
                     groupSnapshotPosition |-> g.position,
                     groupBlockIds |-> g.childIds,
                     childSnapshots |-> childSnapshots(s, g.childIds),
                     blockOffsets |-> sessionOffsets(s, g),
                     rot |-> IF type = "rotate"
                             THEN rotationHelper(g.position, g.size.width, g.size.height,
                                                 g.rotation, e)
                             ELSE <<>>]>>
    ELSE IF ~HasBlock(s, blockId) THEN <<>>
         ELSE LET b == getBlockById(s, blockId)
              IN  IF b.locked THEN <<>>
                  ELSE <<[type |-> type, blockId |-> blockId, startX |-> e.x, startY |-> e.y,
                          handle |-> handle, blockSnapshot |-> blockSnapshot(b),
                          groupSnapshotPosition |-> <<>>,
                          groupBlockIds |-> <<>>, childSnapshots |-> <<>>,
                          blockOffsets |-> EmptyMap,
                          rot |-> IF type = "rotate" /\ hasNumericSize(b)
                                  THEN rotationHelper(b.position, WidthOf(b), HeightOf(b),
                                                      OrElse(b.rotation, 0), e)
                                  ELSE <<>>]>>

\* |w cos| + |h sin| and |w sin| + |h cos| for a rotation that is a multiple of 90
EffectiveW(w, h, rotation) == Abs(w * CosDeg(rotation)) + Abs(h * SinDeg(rotation))
EffectiveH(w, h, rotation) == Abs(w * SinDeg(rotation)) + Abs(h * CosDeg(rotation))

\* Math.min(Math.max(v, lo - 0.9 * eff), lo + len - eff): the box may leave
\* the workspace by nine tenths of its extent on the near side only
ClampInWorkspace(v, lo, len, eff) ==
    Min2(IF 10 * v >= 10 * lo - 9 * eff THEN v ELSE (10 * lo - 9 * eff) \div 10,
         lo + len - eff)

ClampExact(v, lo, eff) == 10 * v >= 10 * lo - 9 * eff \/ (9 * eff) % 10 = 0

\* the clamped top-left corner of a box dragged by the pointer's total delta
MovedPosition(position, width, height, rotation, ia, e) ==
    [x |-> ClampInWorkspace(position.x + (e.x - ia.startX), 0 - CanvasLeft, WorkspaceWidth,
                            EffectiveW(width, height, rotation)),
     y |-> ClampInWorkspace(position.y + (e.y - ia.startY), 0 - CanvasTop, WorkspaceHeight,
                            EffectiveH(width, height, rotation))]

MoveExact(position, width, height, rotation, ia, e) ==
    /\ ClampExact(position.x + (e.x - ia.startX), 0 - CanvasLeft,
                  EffectiveW(width, height, rotation))
    /\ ClampExact(position.y + (e.y - ia.startY), 0 - CanvasTop,
                  EffectiveH(width, height, rotation))

\* offsets[childId] || { x: 0, y: 0 }
OffsetOf_Zero(ia, id) == [x |-> 0, y |-> 0]

OffsetOf(ia, id) == MapGet(ia.blockOffsets, id, [x |-> 0, y |-> 0])

\* handlePointerMove, group move branch
GroupMove(s, ia, e) ==
    LET g == ia.blockSnapshot
        at == MovedPosition(ia.groupSnapshotPosition, g.size.width, g.size.height,
                            g.rotation, ia, e)
    IN  updateGroup(
            PatchEach(s, ia.groupBlockIds,
                      [id \in Range(ia.groupBlockIds) |->
                          [position |-> [x |-> at.x + OffsetOf(ia, id).x,
                                         y |-> at.y + OffsetOf(ia, id).y]]]),
            ia.blockId, [position |-> at])

GroupMoveExact(ia, e) ==
    MoveExact(ia.groupSnapshotPosition, ia.blockSnapshot.size.width,
              ia.blockSnapshot.size.height, ia.blockSnapshot.rotation, ia, e)

\* v || 1
OrOne(v) == IF v = 0 THEN 1 ELSE v

\* The group box after a resize by the pointer's total delta: position, size
\* and the two scale factors as fractions <<numerator, denominator>>.
GroupResizeBox(ia, e) ==
    LET g == ia.blockSnapshot
        dx == e.x - ia.startX
        dy == e.y - ia.startY
        w == IF Includes(ia.handle, "left") THEN Max2(40, g.size.width - dx)
             ELSE IF Includes(ia.handle, "right") THEN Max2(40, g.size.width + dx)
             ELSE g.size.width
        h == IF Includes(ia.handle, "top") THEN Max2(40, g.size.height - dy)
             ELSE IF Includes(ia.handle, "bottom") THEN Max2(40, g.size.height + dy)
             ELSE g.size.height
    IN  [x |-> IF Includes(ia.handle, "left") THEN g.position.x + (g.size.width - w)
               ELSE g.position.x,
         y |-> IF Includes(ia.handle, "top") THEN g.position.y + (g.size.height - h)
               ELSE g.position.y,
         width |-> w, height |-> h,
         scaleX |-> IF Includes(ia.handle, "left") \/ Includes(ia.handle, "right")
                    THEN <<w, OrOne(g.size.width)>> ELSE <<1, 1>>,
         scaleY |-> IF Includes(ia.handle, "top") \/ Includes(ia.handle, "bottom")
                    THEN <<h, OrOne(g.size.height)>> ELSE <<1, 1>>]

\* v * scale for a fraction scale
Times(v, scale) == (v * scale[1]) \div scale[2]
TimesExact(v, scale) == (v * scale[1]) % scale[2] = 0

\* Math.min(scaleX, scaleY)
MinScale(a, b) == IF a[1] * b[2] <= b[1] * a[2] THEN a ELSE b

\* childSnapshots.find(s => s.id === bid), as a sequence of at most one
SnapshotOf(ia, bid) == SelectSeq(ia.childSnapshots, LAMBDA c : c.id = bid)

\* the patch the group resize branch hands to updateBlock for member bid
GroupResizePatch(s, ia, box, bid) ==
    IF SnapshotOf(ia, bid) = <<>> THEN EmptyMap
    ELSE LET snapshot == SnapshotOf(ia, bid)[1]
             scaled == snapshot.fontSize # <<>> /\ HasBlock(s, bid)
                       /\ getBlockById(s, bid).type = "text"
         IN  [k \in {"position", "size"}
                    \cup (IF snapshot.fontSize # <<>> THEN {"fontSize"} ELSE {}) |->
                CASE k = "position" ->
                        [x |-> box.x + Times(OffsetOf(ia, bid).x, box.scaleX),
                         y |-> box.y + Times(OffsetOf(ia, bid).y, box.scaleY)]
                  [] k = "size" ->
                        <<[width |-> Times(snapshot.size[1].width, box.scaleX),
                           height |-> IF snapshot.size[1].height = <<>> THEN <<>>
                                      ELSE <<Times(snapshot.size[1].height[1], box.scaleY)>>]>>
                  [] k = "fontSize" ->
                        IF scaled
                        THEN <<Times(snapshot.fontSize[1], MinScale(box.scaleX, box.scaleY))>>
                        ELSE snapshot.fontSize]

\* handlePointerMove, group resize branch (a session without a handle returns)
GroupResize(s, ia, e) ==
    IF ia.handle = <<>> THEN s
    ELSE updateGroup(
             PatchEach(s, ia.groupBlockIds,
                       [id \in Range(ia.groupBlockIds) |->
                           GroupResizePatch(s, ia, GroupResizeBox(ia, e), id)]),
             ia.blockId,
             [position |-> [x |-> GroupResizeBox(ia, e).x, y |-> GroupResizeBox(ia, e).y],
              size |-> [width |-> GroupResizeBox(ia, e).width,
                        height |-> GroupResizeBox(ia, e).height],
              blockOffsets |->
                  [id \in DOMAIN ia.blockOffsets |->
                      [x |-> Times(ia.blockOffsets[id].x, GroupResizeBox(ia, e).scaleX),
                       y |-> Times(ia.blockOffsets[id].y, GroupResizeBox(ia, e).scaleY)]]])

GroupResizeExact(ia, e) ==
    LET box == GroupResizeBox(ia, e)
    IN  /\ \A id \in DOMAIN ia.blockOffsets :
               /\ TimesExact(ia.blockOffsets[id].x, box.scaleX)
               /\ TimesExact(ia.blockOffsets[id].y, box.scaleY)
        /\ \A i \in DOMAIN ia.childSnapshots :
               /\ TimesExact(ia.childSnapshots[i].size[1].width, box.scaleX)
               /\ TimesExact(OrElse(ia.childSnapshots[i].size[1].height, 0), box.scaleY)
               /\ TimesExact(OrElse(ia.childSnapshots[i].fontSize, 0),
                             MinScale(box.scaleX, box.scaleY))

\* (delta / extent) * 100
Percent(delta, extent) == (100 * delta) \div extent
PercentExact(delta, extent) == (100 * delta) % extent = 0

\* "if (total > 90) { a *= 90 / total; b *= 90 / total }" for one of the two
CapTotal(v, total) == IF total > 90 THEN (v * 90) \div total ELSE v
CapTotalExact(v, total) == IF total > 90 THEN (v * 90) % total = 0 ELSE TRUE

\* The edges the group crop branch computes for a member from the crop the
\* member has in the store now, before the totals are capped.
GroupCropEdges(crop, handle, cropDeltaX, cropDeltaY) ==
    [left |-> IF handle = <<"left">>
              THEN clampCropValue(getCropValues(crop).left + cropDeltaX)
              ELSE getCropValues(crop).left,
     right |-> IF handle = <<"right">>
               THEN clampCropValue(getCropValues(crop).right - cropDeltaX)
               ELSE getCropValues(crop).right,
     top |-> IF handle = <<"top">>
             THEN clampCropValue(getCropValues(crop).top + cropDeltaY)
             ELSE getCropValues(crop).top,
     bottom |-> IF handle = <<"bottom">>
                THEN clampCropValue(getCropValues(crop).bottom - cropDeltaY)
                ELSE getCropValues(crop).bottom]

\* "clamp totals"
CapTotals(n) ==
    [left |-> CapTotal(n.left, n.left + n.right),
     right |-> CapTotal(n.right, n.left + n.right),
     top |-> CapTotal(n.top, n.top + n.bottom),
     bottom |-> CapTotal(n.bottom, n.top + n.bottom)]

CapTotalsExact(n) ==
    /\ CapTotalExact(n.left, n.left + n.right) /\ CapTotalExact(n.right, n.left + n.right)
    /\ CapTotalExact(n.top, n.top + n.bottom) /\ CapTotalExact(n.bottom, n.top + n.bottom)

\* cropDeltaX and cropDeltaY of a group crop session
GroupCropDelta(ia, e) ==
    [x |-> Percent(e.x - ia.startX, OrOne(ia.blockSnapshot.size.width)),
     y |-> Percent(e.y - ia.startY, OrOne(ia.blockSnapshot.size.height))]

\* handlePointerMove, group crop branch: every image member's crop is
\* recomputed from its crop in the store and the pointer's total delta
GroupCrop(s, ia, e) ==
    IF ia.handle = <<>> THEN s
    ELSE PatchEach(s, getGroupBlockIds(ia.blockSnapshot),
             [id \in Range(getGroupBlockIds(ia.blockSnapshot)) |->
                 IF HasBlock(s, id) /\ getBlockById(s, id).type = "image"
                 THEN [crop |-> <<CapTotals(GroupCropEdges(getBlockById(s, id).crop, ia.handle,
                                     GroupCropDelta(ia, e).x, GroupCropDelta(ia, e).y))>>]
                 ELSE EmptyMap])

GroupCropExact(s, ia, e) ==
    /\ PercentExact(e.x - ia.startX, OrOne(ia.blockSnapshot.size.width))
    /\ PercentExact(e.y - ia.startY, OrOne(ia.blockSnapshot.size.height))
    /\ \A id \in Range(getGroupBlockIds(ia.blockSnapshot)) :
           HasBlock(s, id) =>
               CapTotalsExact(GroupCropEdges(getBlockById(s, id).crop, ia.handle,
                                  GroupCropDelta(ia, e).x, GroupCropDelta(ia, e).y))

\* the pointer's angle around the session's centre
PointerAngle(ia, e) == Atan2Deg(e.y - ia.rot[1].center.y, e.x - ia.rot[1].center.x)

\* ((deltaAngle * 180) / Math.PI + initialRotation) % 360
RotatedTo(ia, e) ==
    JsRem(PointerAngle(ia, e) - ia.rot[1].startAngle + ia.rot[1].initialRotation, 360)

RotateExact(ia, e) ==
    ia.rot # <<>> =>
        (e.y = ia.rot[1].center.y \/ e.x = ia.rot[1].center.x)

\* The patch the group rotate branch computes for a member snapshot: the
\* member turns by delta degrees around the centre of the group box.  Twice
\* the coordinates are used so that centres need no halves.
GroupRotatePatch(g, snapshot, delta) ==
    LET w == snapshot.size[1].width
        h == OrElse(snapshot.size[1].height, 0)
        gcx2 == 2 * g.position.x + g.size.width
        gcy2 == 2 * g.position.y + g.size.height
        dx2 == (2 * snapshot.position.x + w) - gcx2
        dy2 == (2 * snapshot.position.y + h) - gcy2
    IN  [rotation |-> <<snapshot.rotation + delta>>,
         position |->
             [x |-> (gcx2 + (dx2 * CosDeg(delta) - dy2 * SinDeg(delta)) - w) \div 2,
              y |-> (gcy2 + (dx2 * SinDeg(delta) + dy2 * CosDeg(delta)) - h) \div 2]]

GroupRotateUpdates(ia, e) ==
    [id \in {ia.childSnapshots[i].id : i \in DOMAIN ia.childSnapshots} |->
        GroupRotatePatch(ia.blockSnapshot, SnapshotOf(ia, id)[1],
                         PointerAngle(ia, e) - ia.rot[1].startAngle)]

\* handlePointerMove, group rotate branch
GroupRotate(s, ia, e) ==
    updateGroup(
        ApplyPatches(s, GroupRotateUpdates(ia, e)),
        ia.blockId,
        [rotation |-> RotatedTo(ia, e),
         blockOffsets |->
             MapMerge(IF HasGroup(s, ia.blockId) THEN getGroupById(s, ia.blockId).blockOffsets
                      ELSE EmptyMap,
                      [id \in DOMAIN GroupRotateUpdates(ia, e) |->
                          [x |-> GroupRotateUpdates(ia, e)[id].position.x
                                    - ia.blockSnapshot.position.x,
                           y |-> GroupRotateUpdates(ia, e)[id].position.y
                                    - ia.blockSnapshot.position.y]])])

GroupRotateExact(ia, e) ==
    /\ RotateExact(ia, e)
    /\ ia.blockSnapshot.size.width % 2 = 0 /\ ia.blockSnapshot.size.height % 2 = 0
    /\ \A i \in DOMAIN ia.childSnapshots :
           /\ ia.childSnapshots[i].size[1].width % 2 = 0
           /\ OrElse(ia.childSnapshots[i].size[1].height, 0) % 2 = 0

\* handlePointerMove, single block move branch
SingleMove(s, ia, e) ==
    updateBlock(s, ia.blockSnapshot.id,
        [position |-> MovedPosition(ia.blockSnapshot.position, WidthOf(ia.blockSnapshot),
                                    HeightOf(ia.blockSnapshot), ia.blockSnapshot.rotation,
                                    ia, e)])

SingleMoveExact(ia, e) ==
    MoveExact(ia.blockSnapshot.position, WidthOf(ia.blockSnapshot),
              HeightOf(ia.blockSnapshot), ia.blockSnapshot.rotation, ia, e)

\* the left edge after dragging it by dx: it stays minWidth left of the right
\* edge and inside the canvas
DraggedLeft(x, width, dx, minWidth) == Max2(0, Min2(x + dx, x + width - minWidth))

\* startFontSize * Math.max(0.5, Math.min(newWidth / startWidth, 3))
ScaledFont(font, newWidth, startWidth) ==
    IF 2 * newWidth < startWidth THEN font \div 2
    ELSE IF newWidth > 3 * startWidth THEN 3 * font
    ELSE (font * newWidth) \div startWidth

ScaledFontExact(font, newWidth, startWidth) ==
    /\ startWidth > 0
    /\ IF 2 * newWidth < startWidth THEN font % 2 = 0
       ELSE IF newWidth > 3 * startWidth THEN TRUE
       ELSE (font * newWidth) % startWidth = 0

\* single block resize, text scaled from its top-left handle
TextResize(s, ia, e) ==
    LET snap == ia.blockSnapshot
        newLeft == DraggedLeft(snap.position.x, WidthOf(snap), e.x - ia.startX, 20)
        newWidth == snap.position.x + WidthOf(snap) - newLeft
    IN  updateBlock(s, snap.id,
            [position |-> [snap.position EXCEPT !.x = newLeft],
             size |-> <<[snap.size[1] EXCEPT !.width = newWidth]>>,
             fontSize |-> <<ScaledFont(OrElse(snap.fontSize, 16), newWidth, WidthOf(snap))>>])

TextResizeExact(ia, e) ==
    LET snap == ia.blockSnapshot
        newLeft == DraggedLeft(snap.position.x, WidthOf(snap), e.x - ia.startX, 20)
    IN  ScaledFontExact(OrElse(snap.fontSize, 16),
                        snap.position.x + WidthOf(snap) - newLeft, WidthOf(snap))

DefaultResize_Drags(s, ia, e) ==
    updateBlock(s, ia.blockSnapshot.id,
        [position |-> [x |-> ia.blockSnapshot.position.x + (e.x - ia.startX),
                       y |-> ia.blockSnapshot.position.y + (e.y - ia.startY)]])

\* single block resize, default: each edge named by the handle follows the
\* pointer, the block keeps minSize 40 and stays inside the canvas
DefaultResize(s, ia, e) ==
    LET snap == ia.blockSnapshot
        dx == e.x - ia.startX
        dy == e.y - ia.startY
        tall == snap.size[1].height # <<>>
        left == IF Includes(ia.handle, "left")
                THEN DraggedLeft(snap.position.x, WidthOf(snap), dx, 40)
                ELSE snap.position.x
        top == IF Includes(ia.handle, "top") /\ tall
               THEN DraggedLeft(snap.position.y, HeightOf(snap), dy, 40)
               ELSE snap.position.y
        width == IF Includes(ia.handle, "left") THEN snap.position.x + WidthOf(snap) - left
                 ELSE IF Includes(ia.handle, "right")
                 THEN Max2(40, Min2(WidthOf(snap) + dx, CanvasWidth - snap.position.x))
                 ELSE WidthOf(snap)
        height == IF Includes(ia.handle, "top") /\ tall
                  THEN snap.position.y + HeightOf(snap) - top
                  ELSE IF Includes(ia.handle, "bottom") /\ tall
                  THEN Max2(40, Min2(HeightOf(snap) + dy, CanvasHeight - snap.position.y))
                  ELSE HeightOf(snap)
    IN  updateBlock(s, snap.id,
            [position |-> [x |-> left, y |-> top],
             size |-> <<[width |-> width,
                         height |-> IF tall THEN <<height>> ELSE <<>>]>>])

\* the canvas height is the only fraction of the default resize
DefaultResizeExact(ia, e) ==
    (Includes(ia.handle, "bottom") /\ ~Includes(ia.handle, "top")) =>
        HeightOf(ia.blockSnapshot) + (e.y - ia.startY)
            <= CanvasHeight - ia.blockSnapshot.position.y

\* handlePointerMove, single block resize branch
SingleResize(s, ia, e) ==
    IF ~hasNumericSize(ia.blockSnapshot) \/ ia.handle = <<>> THEN s
    ELSE IF ia.blockSnapshot.type = "text" /\ ia.handle = <<"top-left">>
    THEN TextResize(s, ia, e)
    ELSE DefaultResize(s, ia, e)

SingleResizeExact(ia, e) ==
    IF ~hasNumericSize(ia.blockSnapshot) \/ ia.handle = <<>> THEN TRUE
    ELSE IF ia.blockSnapshot.type = "text" /\ ia.handle = <<"top-left">>
    THEN TextResizeExact(ia, e)
    ELSE DefaultResizeExact(ia, e)

\* clamp100
clamp100(v) == Min2(Max2(v, 0), 100)

SingleCropEdges_Mirrored(c, handle, dxPercent, dyPercent) ==
    [left |-> clamp100(IF handle \in {<<"left">>, <<"right">>}
                       THEN Min2(clamp100(c.left + dxPercent), 100 - c.right - 1)
                       ELSE c.left),
     right |-> clamp100(IF handle \in {<<"left">>, <<"right">>}
                        THEN Min2(clamp100(c.right - dxPercent), 100 - c.left - 1)
                        ELSE c.right),
     top |-> clamp100(IF handle \in {<<"top">>, <<"bottom">>}
                      THEN Min2(clamp100(c.top + dyPercent), 100 - c.bottom - 1)
                      ELSE c.top),
     bottom |-> clamp100(IF handle \in {<<"top">>, <<"bottom">>}
                         THEN Min2(clamp100(c.bottom - dyPercent), 100 - c.top - 1)
                         ELSE c.bottom)]

\* The edge the handle names follows the pointer: it is clamped to 0..100 and
\* leaves MIN_VISIBLE_PERCENT = 1 between itself and the opposite edge of the
\* snapshot; then every edge is clamped to 0..100.
SingleCropEdges(c, handle, dxPercent, dyPercent) ==
    [left |-> clamp100(IF handle = <<"left">>
                       THEN Min2(clamp100(c.left + dxPercent), 100 - c.right - 1)
                       ELSE c.left),
     right |-> clamp100(IF handle = <<"right">>
                        THEN Min2(clamp100(c.right - dxPercent), 100 - c.left - 1)
                        ELSE c.right),
     top |-> clamp100(IF handle = <<"top">>
                      THEN Min2(clamp100(c.top + dyPercent), 100 - c.bottom - 1)
                      ELSE c.top),
     bottom |-> clamp100(IF handle = <<"bottom">>
                         THEN Min2(clamp100(c.bottom - dyPercent), 100 - c.top - 1)
                         ELSE c.bottom)]

\* "if (visibleH < MIN_VISIBLE_PERCENT)": the handle's edge is nudged back,
\* with another handle both edges give up half of the excess
NudgeHorizontal(n, handle) ==
    IF 100 - (n.left + n.right) >= 1 THEN n
    ELSE IF handle = <<"left">> THEN [n EXCEPT !.left = 100 - n.right - 1]
    ELSE IF handle = <<"right">> THEN [n EXCEPT !.right = 100 - n.left - 1]
    ELSE [n EXCEPT !.left = clamp100(n.left - (1 - (100 - (n.left + n.right))) \div 2),
                   !.right = clamp100(n.right - (1 - (100 - (n.left + n.right))) \div 2)]

NudgeVertical(n, handle) ==
    IF 100 - (n.top + n.bottom) >= 1 THEN n
    ELSE IF handle = <<"top">> THEN [n EXCEPT !.top = 100 - n.bottom - 1]
    ELSE IF handle = <<"bottom">> THEN [n EXCEPT !.bottom = 100 - n.top - 1]
    ELSE [n EXCEPT !.top = clamp100(n.top - (1 - (100 - (n.top + n.bottom))) \div 2),
                   !.bottom = clamp100(n.bottom - (1 - (100 - (n.top + n.bottom))) \div 2)]

\* dxPercent and dyPercent of a single block crop session
SingleCropDelta(ia, e) ==
    [x |-> IF WidthOf(ia.blockSnapshot) > 0
           THEN Percent(e.x - ia.startX, WidthOf(ia.blockSnapshot)) ELSE 0,
     y |-> IF HeightOf(ia.blockSnapshot) > 0
           THEN Percent(e.y - ia.startY, HeightOf(ia.blockSnapshot)) ELSE 0]

\* handlePointerMove, single block crop branch
SingleCrop(s, ia, e) ==
    IF ia.blockSnapshot.type # "image" \/ ~hasNumericSize(ia.blockSnapshot)
       \/ ia.handle = <<>>
    THEN s
    ELSE updateBlock(s, ia.blockSnapshot.id,
             [crop |-> <<NudgeVertical(
                             NudgeHorizontal(
                                 SingleCropEdges(getCropValues(ia.blockSnapshot.crop),
                                     ia.handle, SingleCropDelta(ia, e).x,
                                     SingleCropDelta(ia, e).y),
                                 ia.handle),
                             ia.handle)>>])

SingleCropExact(ia, e) ==
    LET c == getCropValues(ia.blockSnapshot.crop)
    IN  /\ ia.handle \in {<<"left">>, <<"right">>} =>
               (WidthOf(ia.blockSnapshot) > 0 =>
                    PercentExact(e.x - ia.startX, WidthOf(ia.blockSnapshot)))
        /\ ia.handle \in {<<"top">>, <<"bottom">>} =>
               (HeightOf(ia.blockSnapshot) > 0 =>
                    PercentExact(e.y - ia.startY, HeightOf(ia.blockSnapshot)))
        /\ ia.handle \in {<<"top">>, <<"bottom">>} => c.left + c.right <= 99
        /\ ia.handle \in {<<"left">>, <<"right">>} => c.top + c.bottom <= 99

\* handlePointerMove, single block rotate branch; without the rotation helper
\* the read of center.y throws and the store is left alone
SingleRotate(s, ia, e) ==
    IF ~hasNumericSize(ia.blockSnapshot) \/ ia.rot = <<>> THEN s
    ELSE updateBlock(s, ia.blockSnapshot.id, [rotation |-> <<RotatedTo(ia, e)>>])

\* handlePointerMove(event) with the session ia in the slot
handlePointerMove(s, ia, e) ==
    IF isGroupId(ia.blockId)
    THEN CASE ia.type = "move" -> GroupMove(s, ia, e)
           [] ia.type = "resize" -> GroupResize(s, ia, e)
           [] ia.type = "crop" -> GroupCrop(s, ia, e)
           [] ia.type = "rotate" -> GroupRotate(s, ia, e)
    ELSE CASE ia.type = "move" -> SingleMove(s, ia, e)
           [] ia.type = "resize" -> SingleResize(s, ia, e)
           [] ia.type = "crop" -> SingleCrop(s, ia, e)
           [] ia.type = "rotate" -> SingleRotate(s, ia, e)

\* the handler's arithmetic on this event stays within the integers
Exact(s, ia, e) ==
    IF isGroupId(ia.blockId)
    THEN CASE ia.type = "move" -> GroupMoveExact(ia, e)
           [] ia.type = "resize" -> ia.handle # <<>> => GroupResizeExact(ia, e)
           [] ia.type = "crop" -> ia.handle # <<>> => GroupCropExact(s, ia, e)
           [] ia.type = "rotate" -> GroupRotateExact(ia, e)
    ELSE CASE ia.type = "move" -> SingleMoveExact(ia, e)
           [] ia.type = "resize" -> SingleResizeExact(ia, e)
           [] ia.type = "crop" -> SingleCropExact(ia, e)
           [] ia.type = "rotate" -> RotateExact(ia, e)

\* { position, rotation, size, fontSize } as JSON keeps it: a key whose value
\* is undefined is dropped
ChildRecord(position, rotation, size, fontSize) ==
    [k \in {"position"} \cup (IF rotation # <<>> THEN {"rotation"} ELSE {})
                        \cup (IF size # <<>> THEN {"size"} ELSE {})
                        \cup (IF fontSize # <<>> THEN {"fontSize"} ELSE {}) |->
        CASE k = "position" -> position
          [] k = "rotation" -> rotation
          [] k = "size" -> size
          [] k = "fontSize" -> fontSize]

\* childBefore, from the session's member snapshots
childBefore(ia) ==
    [id \in {ia.childSnapshots[i].id : i \in DOMAIN ia.childSnapshots} |->
        ChildRecord(SnapshotOf(ia, id)[1].position, <<SnapshotOf(ia, id)[1].rotation>>,
                    SnapshotOf(ia, id)[1].size, SnapshotOf(ia, id)[1].fontSize)]

\* childAfter, from the store: the members the group lists now (the
\* session's list when the group is gone or lists none)
childAfter(s, ia) ==
    [id \in {i \in Range(IF HasGroup(s, ia.blockId)
                            /\ getGroupById(s, ia.blockId).childIds # <<>>
                         THEN getGroupById(s, ia.blockId).childIds
                         ELSE ia.groupBlockIds) : HasBlock(s, i)} |->
        ChildRecord(getBlockById(s, id).position, getBlockById(s, id).rotation,
                    getBlockById(s, id).size, getBlockById(s, id).fontSize)]

GroupFinal_Reverts(s, ia) ==
    LET groupAfter == IF HasGroup(s, ia.blockId) THEN <<getGroupById(s, ia.blockId)>>
                      ELSE <<>>
    IN  IF [group |-> <<ia.blockSnapshot>>, children |-> childBefore(ia)]
             # [group |-> groupAfter, children |-> childAfter(s, ia)]
        THEN <<GroupTransformCommand(ia.blockId, groupAfter, <<ia.blockSnapshot>>,
                                     childAfter(s, ia), childBefore(ia))>>
        ELSE <<>>

\* group finalization: the command endInteraction applies, <<>> for none
GroupFinal(s, ia) ==
    LET groupAfter == IF HasGroup(s, ia.blockId) THEN <<getGroupById(s, ia.blockId)>>
                      ELSE <<>>
    IN  IF [group |-> <<ia.blockSnapshot>>, children |-> childBefore(ia)]
             # [group |-> groupAfter, children |-> childAfter(s, ia)]
        THEN <<GroupTransformCommand(ia.blockId, <<ia.blockSnapshot>>, groupAfter,
                                     childBefore(ia), childAfter(s, ia))>>
        ELSE <<>>

\* single block finalization: the command endInteraction applies, <<>> for none
SingleFinal(s, ia) ==
    IF ~HasBlock(s, ia.blockSnapshot.id) THEN <<>>
    ELSE
      LET snap == ia.blockSnapshot
          current == getBlockById(s, ia.blockSnapshot.id)
      IN  CASE ia.type = "move" ->
                  IF snap.position # current.position
                  THEN <<MoveCommand(snap.id, snap.position, current.position)>>
                  ELSE <<>>
            [] ia.type = "resize" ->
                  IF snap.size # current.size \/ snap.position # current.position
                     \/ snap.fontSize # current.fontSize
                  THEN <<ResizeCommand(snap.id, snap.size, current.size,
                                       <<snap.position>>, <<current.position>>,
                                       snap.fontSize, current.fontSize)>>
                  ELSE <<>>
            [] ia.type = "rotate" ->
                  IF snap.rotation # OrElse(current.rotation, 0)
                  THEN <<RotateCommand(snap.id, <<snap.rotation>>,
                                       <<OrElse(current.rotation, 0)>>, EmptyMap, EmptyMap)>>
                  ELSE <<>>
            [] ia.type = "crop" ->
                  IF snap.crop # current.crop
                  THEN <<CropCommand(snap.id, snap.crop, current.crop)>>
                  ELSE <<>>

\* endInteraction: the command the try block hands to store.applyCommand
FinalCommand_GroupOnly(s, ia) ==
    IF isGroupId(ia.blockId) THEN GroupFinal(s, ia) ELSE <<>>

FinalCommand(s, ia) ==
    IF isGroupId(ia.blockId) THEN GroupFinal(s, ia) ELSE SingleFinal(s, ia)

\* document.addEventListener with the one function object kept in a ref: a
\* listener that is registered already is not registered again
addEventListener_Again(n) == n + 1

addEventListener(n) == IF n > 0 THEN n ELSE 1

removeEventListener(n) == IF n > 0 THEN n - 1 ELSE 0

\* the event is handed to handlePointerMove once per registered listener
RECURSIVE Dispatch(_, _, _, _)
Dispatch(n, s, ia, e) ==
    IF n = 0 THEN s ELSE Dispatch(n - 1, handlePointerMove(s, ia, e), ia, e)

----------------------------------------------------------------------------
(* The editor: pointer events, the keyboard shortcuts and grouping.        *)

MaxGestures == 1     \* pointer-downs that start a session
MaxMoves == 2        \* pointer-moves between a pointer-down and the next one
MaxPointerDowns == 2 \* pointer-downs considered for the session slot
MaxGroupings == 1    \* groups created through handleCreateGroup
Radius == 50         \* distance of the pointer from the centre it turns around

\* the editor after its initialisation effect, before any user input
InitEditor ==
    /\ blocks = InitialBlocks
    /\ groups = <<>>
    /\ undoStack = <<>>
    /\ redoStack = <<>>
    /\ interaction = <<>>
    /\ moveListeners = 0
    /\ upListeners = 0
    /\ measurementRAFRef = <<>>
    /\ frameCallbacks = {}
    /\ editingBlockId = <<>>
    /\ editingOriginalRef = NoOriginals
    /\ last = NoStep
    /\ entry = <<>>
    /\ budget = [cmds |-> MaxGroupings, api |-> 0, groups |-> MaxGroupings,
                 gestures |-> MaxGestures, each |-> MaxMoves, moves |-> 0]

\* the same editor, followed over MaxPointerDowns pointer-downs with one
\* pointer-move after each
InitSession ==
    /\ blocks = InitialBlocks
    /\ groups = <<>>
    /\ undoStack = <<>>
    /\ redoStack = <<>>
    /\ interaction = <<>>
    /\ moveListeners = 0
    /\ upListeners = 0
    /\ measurementRAFRef = <<>>
    /\ frameCallbacks = {}
    /\ editingBlockId = <<>>
    /\ editingOriginalRef = NoOriginals
    /\ last = NoStep
    /\ entry = <<>>
    /\ budget = [cmds |-> MaxGroupings, api |-> 0, groups |-> MaxGroupings,
                 gestures |-> MaxPointerDowns, each |-> 1, moves |-> 0]

\* total pointer deltas considered for move, resize and crop sessions
Deltas == {<<0, 0>>, <<20, 0>>, <<0, 20>>, <<-20, -20>>}

\* where a session of this type on this entity starts: the rotate button
\* sits below the centre of the box, the other sessions start at one point
DownPoint(s, type, id) ==
    IF type # "rotate" THEN [x |-> 200, y |-> 200]
    ELSE IF isGroupId(id)
    THEN [x |-> CanvasLeft + getGroupById(s, id).position.x
                    + getGroupById(s, id).size.width \div 2,
          y |-> CanvasTop + getGroupById(s, id).position.y
                    + getGroupById(s, id).size.height \div 2 + Radius]
    ELSE [x |-> CanvasLeft + getBlockById(s, id).position.x
                    + WidthOf(getBlockById(s, id)) \div 2,
          y |-> CanvasTop + getBlockById(s, id).position.y
                    + HeightOf(getBlockById(s, id)) \div 2 + Radius]

\* the centre of a rotate session is a whole pixel
DownExact(s, type, id) ==
    type = "rotate" =>
        IF isGroupId(id)
        THEN getGroupById(s, id).size.width % 2 = 0 /\ getGroupById(s, id).size.height % 2 = 0
        ELSE WidthOf(getBlockById(s, id)) % 2 = 0 /\ HeightOf(getBlockById(s, id)) % 2 = 0

\* pointer positions considered during a session
PointerPositions(ia) ==
    IF ia.type = "rotate" /\ ia.rot # <<>>
    THEN {[x |-> ia.rot[1].center.x + d[1] * Radius, y |-> ia.rot[1].center.y + d[2] * Radius] :
              d \in {<<0, 1>>, <<1, 0>>, <<0, -1>>, <<-1, 0>>}}
    ELSE {[x |-> ia.startX + d[1], y |-> ia.startY + d[2]] : d \in Deltas}

CornerIds == {"top-left", "top-right", "bottom-left", "bottom-right"}
SideIds == {"left", "right", "top", "bottom"}

\* The sessions the selection overlay offers on the active entity, as pairs
\* <<type, handle>>: the move and rotate buttons, and the handles computed
\* for the entity (corner handles resize, image side handles crop, a text
\* block has its top-left corner and its horizontal sides).
OverlaySessions(s, id) ==
    {<<"move", <<>>>>, <<"rotate", <<>>>>} \cup
    IF isGroupId(id)
    THEN IF getGroupById(s, id).locked THEN {}
         ELSE {<<"resize", <<h>>>> : h \in CornerIds} \cup
              (IF \E b \in Range(getGroupById(s, id).blockIds) :
                      HasBlock(s, b) /\ getBlockById(s, b).type = "image"
               THEN {<<"crop", <<h>>>> : h \in SideIds} ELSE {})
    ELSE IF getBlockById(s, id).locked \/ ~hasNumericSize(getBlockById(s, id)) THEN {}
    ELSE IF getBlockById(s, id).type = "image"
    THEN {<<"resize", <<h>>>> : h \in CornerIds} \cup {<<"crop", <<h>>>> : h \in SideIds}
    ELSE IF getBlockById(s, id).type = "text"
    THEN {<<"resize", <<h>>>> : h \in {"top-left", "left", "right"}}
    ELSE {<<"resize", <<h>>>> : h \in CornerIds}

\* beginInteraction stored the session ia: the slot is overwritten and both
\* document listeners are added
Began(ia) ==
    /\ budget.gestures > 0
    /\ ia # <<>>
    /\ interaction' = ia
    /\ moveListeners' = addEventListener(moveListeners)
    /\ upListeners' = addEventListener(upListeners)
    /\ entry' = <<[ia |-> ia[1], s |-> Store, moves |-> 0, unmeasured |-> 0,
                    still |-> TRUE, pure |-> TRUE,
                    over |-> interaction # <<>>, released |-> FALSE]>>
    /\ last' = [NoStep EXCEPT !.op = "pointerDown", !.pre = Store]
    /\ budget' = [budget EXCEPT !.gestures = @ - 1, !.moves = budget.each]
    /\ editingBlockId' = IF isGroupId(ia[1].blockId) THEN editingBlockId ELSE <<>>
    /\ UNCHANGED <<storeVars, frameVars, editingOriginalRef>>

\* pointer-down on a block of the canvas without a modifier key: a move
\* session on the block's group if it has one, else on the block
handleBlockPointerDown ==
    \E i \in DOMAIN blocks :
        /\ ~blocks[i].locked
        /\ Began(beginInteraction(Store, "move",
                     IF blocks[i].groupId # NoGroup THEN blocks[i].groupId ELSE blocks[i].id,
                     <<>>, DownPoint(Store, "move", blocks[i].id)))

\* pointer-down on a button or handle of the selection overlay, the active
\* entity being any block or group
OverlayPointerDown ==
    \E id \in {blocks[i].id : i \in DOMAIN blocks}
              \cup {groups[i].id : i \in {j \in DOMAIN groups : isGroupId(groups[j].id)}} :
        \E o \in OverlaySessions(Store, id) :
            /\ DownExact(Store, o[1], id)
            /\ Began(beginInteraction(Store, o[1], id, o[2], DownPoint(Store, o[1], id)))

\* measurementRAFRef.current and the callbacks that wait for the next frame.
\* Handles are named up to renaming: requestAnimationFrame hands out the least
\* positive integer that no waiting callback holds.
Frame == [ref |-> measurementRAFRef, callbacks |-> frameCallbacks]

requestAnimationFrame(callbacks) ==
    CHOOSE h \in 1..(Cardinality(callbacks) + 1) :
        h \notin callbacks /\ \A k \in 1..(h - 1) : k \in callbacks

cancelAnimationFrame(callbacks, h) == callbacks \ {h}

scheduleMeasureForIds_NoCancel(f) ==
    [ref |-> <<requestAnimationFrame(f.callbacks)>>,
     callbacks |-> f.callbacks \cup {requestAnimationFrame(f.callbacks)}]

\* if (measurementRAFRef.current) cancelAnimationFrame(measurementRAFRef.current);
\* measurementRAFRef.current = requestAnimationFrame(...)
scheduleMeasureForIds(f) ==
    LET kept == IF f.ref # <<>> THEN cancelAnimationFrame(f.callbacks, f.ref[1])
                ELSE f.callbacks
    IN  [ref |-> <<requestAnimationFrame(kept)>>,
         callbacks |-> kept \cup {requestAnimationFrame(kept)}]

\* the branch of handlePointerMove the session takes reaches its measurement
\* request: a branch that returns or throws before its write requests none
Measures(ia) ==
    IF isGroupId(ia.blockId)
    THEN ia.type \in {"move", "rotate"} \/ ia.handle # <<>>
    ELSE CASE ia.type = "move" -> TRUE
           [] ia.type = "resize" -> hasNumericSize(ia.blockSnapshot) /\ ia.handle # <<>>
           [] ia.type = "crop" -> /\ ia.blockSnapshot.type = "image"
                                  /\ hasNumericSize(ia.blockSnapshot)
                                  /\ ia.handle # <<>>
           [] ia.type = "rotate" -> hasNumericSize(ia.blockSnapshot) /\ ia.rot # <<>>

\* the measurement requests of n calls of handlePointerMove
RECURSIVE Scheduled(_, _, _)
Scheduled(n, f, ia) ==
    IF n = 0 \/ ~Measures(ia) THEN f
    ELSE Scheduled(n - 1, scheduleMeasureForIds(f), ia)

\* the handler calls left the store s1
Moved(e, s1) ==
    /\ SetStore(s1)
    /\ last' = [NoStep EXCEPT !.op = "pointerMove", !.pre = Store, !.p = <<e>>,
                              !.calls = moveListeners]
    /\ entry' = <<[entry[1] EXCEPT !.moves = @ + 1, !.unmeasured = @ + 1,
                                   !.still = @ /\ e.x = interaction[1].startX
                                               /\ e.y = interaction[1].startY]>>
    /\ budget' = [budget EXCEPT !.moves = @ - 1]
    /\ measurementRAFRef' = Scheduled(moveListeners, Frame, interaction[1]).ref
    /\ frameCallbacks' = Scheduled(moveListeners, Frame, interaction[1]).callbacks
    /\ UNCHANGED <<sessionVars, editVars>>

\* a pointermove event reaches the document
PointerMove ==
    /\ moveListeners > 0
    /\ interaction # <<>>
    /\ budget.moves > 0
    /\ \E e \in PointerPositions(interaction[1]) :
           /\ Exact(Store, interaction[1], e)
           /\ Moved(e, Dispatch(moveListeners, Store, interaction[1], e))

\* endInteraction after the listeners are removed: the try block applies the
\* command fc (none for <<>>), the finally block empties the slot
Finalized(fc) ==
    /\ IF fc = <<>>
       THEN /\ UNCHANGED storeVars
            /\ last' = [NoStep EXCEPT !.op = "pointerUp", !.pre = Store]
       ELSE AfterApply("pointerUp", fc[1])
    /\ interaction' = <<>>
    /\ moveListeners' = removeEventListener(moveListeners)
    /\ upListeners' = removeEventListener(upListeners)
    /\ entry' = <<[entry[1] EXCEPT !.released = entry[1].pure]>>
    /\ UNCHANGED <<frameVars, editVars, budget>>

\* a pointerup event reaches the document
PointerUp ==
    /\ upListeners > 0
    /\ interaction # <<>>
    /\ Finalized(FinalCommand(Store, interaction[1]))

\* a pointerup event whose finalization throws before it applies a command:
\* the catch block logs, the finally block empties the slot
PointerUpThrows ==
    /\ upListeners > 0
    /\ interaction # <<>>
    /\ last' = [NoStep EXCEPT !.op = "pointerUpThrows", !.pre = Store]
    /\ interaction' = <<>>
    /\ moveListeners' = removeEventListener(moveListeners)
    /\ upListeners' = removeEventListener(upListeners)
    /\ UNCHANGED <<storeVars, frameVars, editVars, entry, budget>>

Next ==
    \/ handleCreateGroup
    \/ handleBlockPointerDown
    \/ OverlayPointerDown
    \/ PointerMove
    \/ PointerUp
    \/ UndoCall
    \/ RedoCall

Spec == InitEditor /\ [][Next]_vars

NextSession ==
    \/ handleCreateGroup
    \/ handleBlockPointerDown
    \/ OverlayPointerDown
    \/ PointerMove
    \/ PointerUp
    \/ PointerUpThrows

SpecSession == InitSession /\ [][NextSession]_vars


----------------------------------------------------------------------------
(* Locking through the helper toolbar.                                     *)

MaxLocks == 1        \* lock toggles through the toolbar

\* the ids an onLock over the selection [id] touches
LockedBlockIds(s, id) ==
    IF isGroupId(id)
    THEN IF HasGroup(s, id) THEN Range(getGroupById(s, id).blockIds) ELSE {}
    ELSE {id}

\* "currentlyLocked" of the first selected id
CurrentlyLocked(s, id) ==
    IF isGroupId(id) THEN HasGroup(s, id) /\ getGroupById(s, id).locked
    ELSE HasBlock(s, id) /\ getBlockById(s, id).locked

\* the command onLock applies when the selection is [id]
onLockCommand(s, id) ==
    LockCommand(~CurrentlyLocked(s, id),
                [g \in {i \in {id} : isGroupId(i) /\ HasGroup(s, i)} |->
                    getGroupById(s, g).locked],
                [b \in {i \in LockedBlockIds(s, id) : HasBlock(s, i)} |->
                    getBlockById(s, b).locked])

\* the lock button of the helper toolbar, one block or one group selected
onLock ==
    /\ budget.cmds > 0
    /\ \E id \in {blocks[i].id : i \in DOMAIN blocks}
                 \cup {groups[i].id : i \in {j \in DOMAIN groups : isGroupId(groups[j].id)}} :
           AfterApply("lock", onLockCommand(Store, id))
    /\ budget' = [budget EXCEPT !.cmds = @ - 1]
    /\ entry' = Touch(entry)
    /\ UNCHANGED <<sessionVars, frameVars, editVars>>

\* the editor with the lock button in use
InitLock ==
    /\ blocks = InitialBlocks
    /\ groups = <<>>
    /\ undoStack = <<>>
    /\ redoStack = <<>>
    /\ interaction = <<>>
    /\ moveListeners = 0
    /\ upListeners = 0
    /\ measurementRAFRef = <<>>
    /\ frameCallbacks = {}
    /\ editingBlockId = <<>>
    /\ editingOriginalRef = NoOriginals
    /\ last = NoStep
    /\ entry = <<>>
    /\ budget = [cmds |-> MaxGroupings + MaxLocks, api |-> 0, groups |-> MaxGroupings,
                 gestures |-> MaxGestures, each |-> 1, moves |-> 0]

NextLock ==
    \/ handleCreateGroup
    \/ onLock
    \/ handleBlockPointerDown
    \/ OverlayPointerDown
    \/ PointerMove
    \/ PointerUp

SpecLock == InitLock /\ [][NextLock]_vars

----------------------------------------------------------------------------
(* Move and crop sessions dragged far enough for the clamps to act.        *)

\* total pointer deltas that take a box past the left and the right edge of
\* the workspace, and a crop edge past the opposite edge
FarDeltas == {<<-400, 0>>, <<400, 400>>}

\* a pointermove event far from the pointer-down point reaches the document
\* during a move or crop session
PointerMoveFar ==
    /\ moveListeners > 0
    /\ interaction # <<>>
    /\ interaction[1].type \in {"move", "crop"}
    /\ budget.moves > 0
    /\ \E e \in {[x |-> interaction[1].startX + d[1], y |-> interaction[1].startY + d[2]] :
                    d \in FarDeltas} :
           /\ Exact(Store, interaction[1], e)
           /\ Moved(e, Dispatch(moveListeners, Store, interaction[1], e))

NextFar ==
    \/ handleCreateGroup
    \/ handleBlockPointerDown
    \/ OverlayPointerDown
    \/ PointerMove
    \/ PointerMoveFar
    \/ PointerUp
    \/ UndoCall
    \/ RedoCall

SpecFar == InitEditor /\ [][NextFar]_vars

\* pointer-down on a side handle of the selection overlay that crops, the
\* active entity being any block or group
SideHandlePointerDown ==
    \E id \in {blocks[i].id : i \in DOMAIN blocks}
              \cup {groups[i].id : i \in {j \in DOMAIN groups : isGroupId(groups[j].id)}} :
        \E o \in {c \in OverlaySessions(Store, id) : c[1] = "crop"} :
            Began(beginInteraction(Store, o[1], id, o[2], DownPoint(Store, o[1], id)))

\* the editor, followed over MaxPointerDowns crop sessions with one
\* pointer-move each
InitCrop ==
    /\ blocks = InitialBlocks
    /\ groups = <<>>
    /\ undoStack = <<>>
    /\ redoStack = <<>>
    /\ interaction = <<>>
    /\ moveListeners = 0
    /\ upListeners = 0
    /\ measurementRAFRef = <<>>
    /\ frameCallbacks = {}
    /\ editingBlockId = <<>>
    /\ editingOriginalRef = NoOriginals
    /\ last = NoStep
    /\ entry = <<>>
    /\ budget = [cmds |-> MaxGroupings, api |-> 0, groups |-> MaxGroupings,
                 gestures |-> MaxPointerDowns, each |-> 1, moves |-> 0]

NextCrop ==
    \/ handleCreateGroup
    \/ SideHandlePointerDown
    \/ PointerMove
    \/ PointerMoveFar
    \/ PointerUp

SpecCrop == InitCrop /\ [][NextCrop]_vars

----------------------------------------------------------------------------
(* The arrange actions of the position panel.                              *)

MaxArranges == 2     \* arrange actions in a run

\* Array.prototype.indexOf, counted from 1; 0 when the item is absent
IndexOf(s, item) ==
    IF item \in Range(s) THEN SetMin({i \in DOMAIN s : s[i] = item}) ELSE 0

\* Array.prototype.sort by zIndex on block records: an insertion that keeps
\* blocks of equal zIndex in their page order (the sort is stable)
RECURSIVE SortByZ(_)
SortByZ(bs) ==
    IF bs = <<>> THEN <<>>
    ELSE LET rest == SortByZ(SubSeq(bs, 1, Len(bs) - 1))
             b == bs[Len(bs)]
             k == Cardinality({i \in DOMAIN rest : rest[i].zIndex <= b.zIndex})
         IN  SubSeq(rest, 1, k) \o <<b>> \o SubSeq(rest, k + 1, Len(rest))

\* order block ids by current zIndex (asc)
Ordered(s) == [i \in DOMAIN s.blocks |-> SortByZ(s.blocks)[i].id]

\* moveToIndex(id, index), index counted from 0
moveToIndex(newOrder, id, index) ==
    IF IndexOf(newOrder, id) = 0 THEN newOrder
    ELSE InsertAt(SubSeq(newOrder, 1, IndexOf(newOrder, id) - 1)
                      \o SubSeq(newOrder, IndexOf(newOrder, id) + 1, Len(newOrder)),
                  index, id)

\* the two entries at positions i and j change places
Swap(newOrder, i, j) ==
    [k \in DOMAIN newOrder |->
        IF k = i THEN newOrder[j] ELSE IF k = j THEN newOrder[i] ELSE newOrder[k]]

\* forward: a target that is not last changes places with its successor
RECURSIVE StepForward(_, _)
StepForward(newOrder, iter) ==
    IF iter = <<>> THEN newOrder
    ELSE StepForward(
             IF IndexOf(newOrder, Head(iter)) # 0 /\ IndexOf(newOrder, Head(iter)) < Len(newOrder)
             THEN Swap(newOrder, IndexOf(newOrder, Head(iter)), IndexOf(newOrder, Head(iter)) + 1)
             ELSE newOrder,
             Tail(iter))

\* backward: a target that is not first changes places with its predecessor
RECURSIVE StepBackward(_, _)
StepBackward(newOrder, iter) ==
    IF iter = <<>> THEN newOrder
    ELSE StepBackward(
             IF IndexOf(newOrder, Head(iter)) > 1
             THEN Swap(newOrder, IndexOf(newOrder, Head(iter)), IndexOf(newOrder, Head(iter)) - 1)
             ELSE newOrder,
             Tail(iter))

\* front: targets.forEach((tid) => moveToIndex(tid, newOrder.length))
RECURSIVE ToFront(_, _)
ToFront(newOrder, targets) ==
    IF targets = <<>> THEN newOrder
    ELSE ToFront(moveToIndex(newOrder, Head(targets), Len(newOrder)), Tail(targets))

\* back: targets.forEach((tid, i) => moveToIndex(tid, i)), i being the
\* target's place in the selection
RECURSIVE ToBack(_, _, _)
ToBack(newOrder, targets, i) ==
    IF targets = <<>> THEN newOrder
    ELSE ToBack(moveToIndex(newOrder, Head(targets), i), Tail(targets), i + 1)

Reverse(s) == [i \in DOMAIN s |-> s[Len(s) + 1 - i]]

ArrangeActions == {"front", "back", "forward", "backward"}

NewOrder_TargetsOnly(s, action, targets) == FilterSeq(targets, Range(Ordered(s)))

\* the order handleArrange arrives at
NewOrder(s, action, targets) ==
    CASE action = "forward" -> StepForward(Ordered(s), Reverse(targets))
      [] action = "backward" -> StepBackward(Ordered(s), targets)
      [] action = "front" -> ToFront(Ordered(s), targets)
      [] action = "back" -> ToBack(Ordered(s), targets, 0)

\* oldMap: the zIndex of every block of the order; newMap: the place in the
\* order (from 0) of every block whose zIndex differs from it
ArrangeOldMap(s, newOrder) ==
    [id \in Range(newOrder) |-> getBlockById(s, id).zIndex]

ArrangeNewMap(s, newOrder) ==
    [id \in {newOrder[i] : i \in {j \in DOMAIN newOrder :
                                     getBlockById(s, newOrder[j]).zIndex # j - 1}} |->
        IndexOf(newOrder, id) - 1]

\* selections: one or two distinct ids of blocks and groups of the page
Selections(s) ==
    LET ids == {s.blocks[i].id : i \in DOMAIN s.blocks} \cup {s.groups[i].id : i \in DOMAIN s.groups}
    IN  {<<a>> : a \in ids} \cup {<<a, b>> : <<a, b>> \in {p \in ids \X ids : p[1] # p[2]}}

\* handleArrange(action) with selectedIds = targets; nothing is applied when
\* no zIndex changes
handleArrange ==
    /\ budget.cmds > 0
    /\ blocks # <<>>
    /\ \E action \in ArrangeActions, targets \in Selections(Store) :
           IF DOMAIN ArrangeNewMap(Store, NewOrder(Store, action, targets)) = {}
           THEN /\ last' = [NoStep EXCEPT !.op = "arrange", !.pre = Store]
                /\ UNCHANGED storeVars
           ELSE Applied("arrange",
                    ZIndexCommand(ArrangeOldMap(Store, NewOrder(Store, action, targets)),
                                  ArrangeNewMap(Store, NewOrder(Store, action, targets))),
                    applyCommand(Store,
                        ZIndexCommand(ArrangeOldMap(Store, NewOrder(Store, action, targets)),
                                      ArrangeNewMap(Store, NewOrder(Store, action, targets)))))
    /\ budget' = [budget EXCEPT !.cmds = @ - 1]
    /\ entry' = Touch(entry)
    /\ UNCHANGED <<sessionVars, frameVars, editVars>>

\* a page on which two blocks share a zIndex, as on the sample page
ArrangeBlocks ==
    [i \in DOMAIN InitialBlocks |->
        [InitialBlocks[i] EXCEPT !.zIndex = IF i = 3 THEN 2 ELSE 6]]

InitArrange ==
    /\ blocks \in {InitialBlocks, ArrangeBlocks}
    /\ groups = <<>>
    /\ undoStack = <<>>
    /\ redoStack = <<>>
    /\ interaction = <<>>
    /\ moveListeners = 0
    /\ upListeners = 0
    /\ measurementRAFRef = <<>>
    /\ frameCallbacks = {}
    /\ editingBlockId = <<>>
    /\ editingOriginalRef = NoOriginals
    /\ last = NoStep
    /\ entry = <<>>
    /\ budget = [cmds |-> MaxGroupings + MaxArranges, api |-> 0, groups |-> MaxGroupings,
                 gestures |-> 0, each |-> 0, moves |-> 0]

NextArrange ==
    \/ handleArrange
    \/ handleCreateGroup
    \/ UndoCall
    \/ RedoCall

SpecArrange == InitArrange /\ [][NextArrange]_vars

----------------------------------------------------------------------------
(* The editor's structure handlers, with undo and redo.                    *)

MaxEdits == 3        \* commands the structure handlers apply in a run

InitStructure ==
    /\ blocks = InitialBlocks
    /\ groups = <<>>
    /\ undoStack = <<>>
    /\ redoStack = <<>>
    /\ interaction = <<>>
    /\ moveListeners = 0
    /\ upListeners = 0
    /\ measurementRAFRef = <<>>
    /\ frameCallbacks = {}
    /\ editingBlockId = <<>>
    /\ editingOriginalRef = NoOriginals
    /\ last = NoStep
    /\ entry = <<>>
    /\ budget = [cmds |-> MaxEdits, api |-> 0, groups |-> MaxGroups,
                 gestures |-> 0, each |-> 0, moves |-> 0]

NextStructure ==
    \/ handleCreateGroup
    \/ handleUngroup
    \/ handleDeleteActive
    \/ handleDuplicateGroup
    \/ UndoCall
    \/ RedoCall

SpecStructure == InitStructure /\ [][NextStructure]_vars

----------------------------------------------------------------------------
(* Rotate sessions, from several starting rotations.                       *)

\* rotations the image i1 starts with
StartRotations == {0, 90, 180, 270}

\* pointer-down on the rotate button of the selection overlay, the active
\* entity being any block or group
RotateButtonPointerDown ==
    \E id \in {blocks[i].id : i \in DOMAIN blocks}
              \cup {groups[i].id : i \in {j \in DOMAIN groups : isGroupId(groups[j].id)}} :
        /\ DownExact(Store, "rotate", id)
        /\ Began(beginInteraction(Store, "rotate", id, <<>>, DownPoint(Store, "rotate", id)))

\* the editor with i1 at one of the starting rotations, followed over
\* MaxPointerDowns rotate sessions with one pointer-move each
InitRotate ==
    /\ blocks \in {[i \in DOMAIN InitialBlocks |->
                       IF InitialBlocks[i].id = <<"i1">>
                       THEN [InitialBlocks[i] EXCEPT !.rotation = <<r>>]
                       ELSE InitialBlocks[i]] : r \in StartRotations}
    /\ groups = <<>>
    /\ undoStack = <<>>
    /\ redoStack = <<>>
    /\ interaction = <<>>
    /\ moveListeners = 0
    /\ upListeners = 0
    /\ measurementRAFRef = <<>>
    /\ frameCallbacks = {}
    /\ editingBlockId = <<>>
    /\ editingOriginalRef = NoOriginals
    /\ last = NoStep
    /\ entry = <<>>
    /\ budget = [cmds |-> MaxGroupings, api |-> 0, groups |-> MaxGroupings,
                 gestures |-> MaxPointerDowns, each |-> 1, moves |-> 0]

NextRotate ==
    \/ handleCreateGroup
    \/ RotateButtonPointerDown
    \/ PointerMove
    \/ PointerUp

SpecRotate == InitRotate /\ [][NextRotate]_vars

----------------------------------------------------------------------------
(* Resize sessions after moves that take a block to the workspace's edge.  *)

\* pointer-down on a resize handle of the selection overlay, the active
\* entity being any block or group
ResizeHandlePointerDown ==
    \E id \in {blocks[i].id : i \in DOMAIN blocks}
              \cup {groups[i].id : i \in {j \in DOMAIN groups : isGroupId(groups[j].id)}} :
        \E o \in {c \in OverlaySessions(Store, id) : c[1] = "resize"} :
            Began(beginInteraction(Store, o[1], id, o[2], DownPoint(Store, o[1], id)))

\* the editor, followed over MaxPointerDowns move and resize sessions with
\* one pointer-move each
InitResize ==
    /\ blocks = InitialBlocks
    /\ groups = <<>>
    /\ undoStack = <<>>
    /\ redoStack = <<>>
    /\ interaction = <<>>
    /\ moveListeners = 0
    /\ upListeners = 0
    /\ measurementRAFRef = <<>>
    /\ frameCallbacks = {}
    /\ editingBlockId = <<>>
    /\ editingOriginalRef = NoOriginals
    /\ last = NoStep
    /\ entry = <<>>
    /\ budget = [cmds |-> MaxGroupings, api |-> 0, groups |-> MaxGroupings,
                 gestures |-> MaxPointerDowns, each |-> 1, moves |-> 0]

NextResize ==
    \/ handleCreateGroup
    \/ handleBlockPointerDown
    \/ ResizeHandlePointerDown
    \/ PointerMove
    \/ PointerMoveFar
    \/ PointerUp

SpecResize == InitResize /\ [][NextResize]_vars

----------------------------------------------------------------------------
(* Animation frames.                                                       *)

\* The browser runs the callbacks that wait for the frame; the finally block
\* of each clears measurementRAFRef.current.  The step records how many ran
\* and how many pointer-moves the session saw since the frame before.
AnimationFrame ==
    /\ frameCallbacks # {}
    /\ frameCallbacks' = {}
    /\ measurementRAFRef' = <<>>
    /\ last' = [NoStep EXCEPT !.op = "frame", !.pre = Store,
                              !.calls = Cardinality(frameCallbacks),
                              !.p = IF entry = <<>> THEN <<>> ELSE <<entry[1].unmeasured>>]
    /\ entry' = IF entry = <<>> THEN entry ELSE <<[entry[1] EXCEPT !.unmeasured = 0]>>
    /\ UNCHANGED <<storeVars, sessionVars, editVars, budget>>

\* the editor, followed over MaxPointerDowns sessions with MaxMoves
\* pointer-moves each and animation frames at any moment
InitFrame ==
    /\ blocks = InitialBlocks
    /\ groups = <<>>
    /\ undoStack = <<>>
    /\ redoStack = <<>>
    /\ interaction = <<>>
    /\ moveListeners = 0
    /\ upListeners = 0
    /\ measurementRAFRef = <<>>
    /\ frameCallbacks = {}
    /\ editingBlockId = <<>>
    /\ editingOriginalRef = NoOriginals
    /\ last = NoStep
    /\ entry = <<>>
    /\ budget = [cmds |-> 0, api |-> 0, groups |-> 0,
                 gestures |-> MaxPointerDowns, each |-> MaxMoves, moves |-> 0]

NextFrame ==
    \/ handleBlockPointerDown
    \/ OverlayPointerDown
    \/ PointerMove
    \/ AnimationFrame
    \/ PointerUp

SpecFrame == InitFrame /\ [][NextFrame]_vars

----------------------------------------------------------------------------
(* Editing the content of a text block.                                    *)

\* the values the textarea hands to handleTextChange
TypedValues == {"text", "edited", ""}

\* editingOriginalRef.current[blockId]
OriginalOf(ref, blockId) == IF blockId \in DOMAIN ref THEN ref[blockId] ELSE JsUndefined

\* editingOriginalRef.current[blockId] = v
SetOriginal(ref, blockId, v) ==
    [id \in (DOMAIN ref) \cup {blockId} |-> IF id = blockId THEN v ELSE ref[id]]

\* delete editingOriginalRef.current[blockId]
DeleteOriginal(ref, blockId) == [id \in (DOMAIN ref) \ {blockId} |-> ref[id]]

\* b ? b.content : null
ContentOrNull(s, blockId) ==
    IF HasBlock(s, blockId) THEN JsString(getBlockById(s, blockId).content) ELSE JsNull

\* the edit that begins on blockId: the scene at that moment is kept in 'entry'
EditBegan(blockId) ==
    /\ budget.cmds > 0
    /\ editingBlockId = <<>>
    /\ editingBlockId' = <<blockId>>
    /\ entry' = <<[ia |-> [type |-> "edit", blockId |-> blockId], s |-> Store,
                    moves |-> 0, unmeasured |-> 0, still |-> TRUE, pure |-> TRUE,
                    over |-> FALSE, released |-> FALSE]>>
    /\ last' = [NoStep EXCEPT !.op = "startEdit", !.pre = Store]
    /\ UNCHANGED <<storeVars, sessionVars, frameVars, budget>>

\* a double click on a block of the canvas: a text block becomes the one
\* being edited; nothing is written to editingOriginalRef
handleBlockDoubleClick ==
    \E b \in Range(blocks) :
        /\ b.type = "text"
        /\ EditBegan(b.id)
        /\ UNCHANGED editingOriginalRef

\* startEditing(blockId): records the block's content, then as above
startEditing ==
    \E b \in Range(blocks) :
        /\ b.type = "text"
        /\ EditBegan(b.id)
        /\ editingOriginalRef' = SetOriginal(editingOriginalRef, b.id, ContentOrNull(Store, b.id))

\* the textarea of the block being edited changes: a live write, no command
handleTextChange ==
    /\ editingBlockId # <<>>
    /\ \E value \in TypedValues :
           /\ SetStore(updateBlock(Store, editingBlockId[1], [content |-> value]))
           /\ last' = [NoStep EXCEPT !.op = "textChange", !.pre = Store, !.p = <<value>>]
    /\ UNCHANGED <<sessionVars, frameVars, editVars, entry, budget>>

\* the command stopEditing applies for the block being edited, <<>> for none
EditCommand(s, ref, blockId) ==
    LET oldContent == OriginalOf(ref, blockId)
        newContent == ContentOrNull(s, blockId)
    IN  IF oldContent # newContent
        THEN <<TextChangeCommand(blockId, [content |-> Nullish(oldContent, "")],
                                 [content |-> Nullish(newContent, "")])>>
        ELSE <<>>

\* stopEditing(): the textarea lost the focus, or Escape or Enter was pressed
stopEditing ==
    /\ editingBlockId # <<>>
    /\ LET fc == EditCommand(Store, editingOriginalRef, editingBlockId[1])
       IN  /\ IF fc = <<>>
              THEN /\ UNCHANGED storeVars
                   /\ last' = [NoStep EXCEPT !.op = "stopEditing", !.pre = Store]
                   /\ UNCHANGED budget
              ELSE /\ AfterApply("stopEditing", fc[1])
                   /\ budget' = [budget EXCEPT !.cmds = @ - 1]
    /\ editingOriginalRef' = DeleteOriginal(editingOriginalRef, editingBlockId[1])
    /\ editingBlockId' = <<>>
    /\ UNCHANGED <<sessionVars, frameVars, entry>>

\* the editor, followed over MaxCommands text edits with undo and redo
InitEdit ==
    /\ blocks = InitialBlocks
    /\ groups = <<>>
    /\ undoStack = <<>>
    /\ redoStack = <<>>
    /\ interaction = <<>>
    /\ moveListeners = 0
    /\ upListeners = 0
    /\ measurementRAFRef = <<>>
    /\ frameCallbacks = {}
    /\ editingBlockId = <<>>
    /\ editingOriginalRef = NoOriginals
    /\ last = NoStep
    /\ entry = <<>>
    /\ budget = [cmds |-> MaxCommands, api |-> 0, groups |-> 0,
                 gestures |-> 0, each |-> 0, moves |-> 0]

NextEdit ==
    \/ handleBlockDoubleClick
    \/ startEditing
    \/ handleTextChange
    \/ stopEditing
    \/ UndoCall
    \/ RedoCall

SpecEdit == InitEdit /\ [][NextEdit]_vars

----------------------------------------------------------------------------
(* Groups of a selection made by shift-clicks, deleted and brought back.   *)

\* selectedIds in the order of the shift-clicks: each click appends the id,
\* so a selection need not follow the page's block order
ClickOrders == IdLists \cup {<< <<"i1">>, <<"t1">> >>, << <<"i2">>, <<"t1">> >>}

\* handleCreateGroup with selectedIds = ids in click order
handleCreateGroupClicked ==
    /\ budget.cmds > 0 /\ budget.groups > 0
    /\ \E ids \in ClickOrders :
           /\ \E i \in DOMAIN ids : HasBlock(Store, ids[i])
           /\ AfterApply("createGroup", CreateGroupCommand(Store, ids, FreshGroupId))
    /\ budget' = [budget EXCEPT !.cmds = @ - 1, !.groups = @ - 1]
    /\ entry' = Touch(entry)
    /\ UNCHANGED <<sessionVars, frameVars, editVars>>

NextDelete ==
    \/ handleCreateGroupClicked
    \/ handleDeleteActive
    \/ UndoCall
    \/ RedoCall

SpecDelete == InitStructure /\ [][NextDelete]_vars
----------------------------------------------------------------------------
(* Properties of the command stack and the store.                          *)

LastCmd == last.cmd[1]

\* C1: for a Move, Resize, Rotate, Crop, ZIndex or GroupTransform command built
\* with a 'before' payload equal to the target's current values, undo right
\* after applyCommand gives back the scene before it, and redo right after
\* that undo gives back the scene applyCommand left.
C1_UndoRedoSymmetry ==
    (last.chain \in {2, 3} /\ LastCmd.kind \in TransformKinds) =>
        /\ last.chain = 2 => Scene(Store) = last.s0
        /\ last.chain = 3 => Scene(Store) = last.s1

\* C2: when cmd.do does not throw, applyCommand(cmd) leaves the scene one run
\* of cmd.do produces, cmd on top of the undo list and the redo list empty.
C2_ApplyCommandPushes ==
    (last.op = "applyCommand" /\ ~Do(last.pre, LastCmd).threw) =>
        /\ Scene(Store) = Scene(Do(last.pre, LastCmd).s)
        /\ undoStack = Append(last.pre.undoStack, Do(last.pre, LastCmd).c)
        /\ redoStack = <<>>

\* a command applied while the redo list held a command
C2_Witness ==
    /\ last.op = "applyCommand"
    /\ ~Do(last.pre, LastCmd).threw
    /\ last.pre.redoStack # <<>>
    /\ LastCmd.kind = "AddBlock"
    /\ Len(blocks) = Len(last.pre.blocks) + 1

\* C3: undo() on a non-empty undo list removes its top command, runs its undo
\* and makes it the top of the redo list; redo() on a non-empty redo list
\* removes its top command, runs its do and makes it the top of the undo list.
C3_UndoRedoTransfer ==
    /\ (last.op = "undo" /\ last.pre.undoStack # <<>>) =>
           /\ undoStack = SubSeq(last.pre.undoStack, 1, Len(last.pre.undoStack) - 1)
           /\ redoStack = Append(last.pre.redoStack, Undo(last.pre, LastCmd).c)
           /\ Scene(Store) = Scene(Undo(last.pre, LastCmd).s)
    /\ (last.op = "redo" /\ last.pre.redoStack # <<>>) =>
           /\ redoStack = SubSeq(last.pre.redoStack, 1, Len(last.pre.redoStack) - 1)
           /\ undoStack = Append(last.pre.undoStack, Do(last.pre, LastCmd).c)
           /\ Scene(Store) = Scene(Do(last.pre, LastCmd).s)

\* C4: a block has groupId = g exactly when a group with id g exists and its
\* childIds contains the block's id.
C4_MembershipConsistent ==
    \A i \in DOMAIN blocks :
        /\ blocks[i].groupId # NoGroup =>
               \E j \in DOMAIN groups : /\ groups[j].id = blocks[i].groupId
                                        /\ blocks[i].id \in Range(groups[j].childIds)
        /\ \A j \in DOMAIN groups :
               blocks[i].id \in Range(groups[j].childIds) => blocks[i].groupId = groups[j].id


----------------------------------------------------------------------------
(* Properties of the editor's gestures.  entry[1] is the session of the     *)
(* last pointer-down: ia the stored session, s the store at that moment,   *)
(* moves the pointer-moves since, still whether all of them reported the   *)
(* pointer-down point, pure whether only pointer events happened since,    *)
(* over whether the pointer-down found a session in the slot, released     *)
(* whether pointer-up came with only pointer events since pointer-down.    *)

SingleKinds == {"Move", "Resize", "Rotate", "Crop"}

\* the geometry a session of this type commits, of a block of the store
Committed(b, type) ==
    CASE type = "move" -> <<b.position>>
      [] type = "resize" -> <<b.size, b.position, b.fontSize>>
      [] type = "rotate" -> <<OrElse(b.rotation, 0)>>
      [] type = "crop" -> <<b.crop>>

\* the same geometry of the entry snapshot
SnapshotCommitted(snap, type) ==
    CASE type = "move" -> <<snap.position>>
      [] type = "resize" -> <<snap.size, snap.position, snap.fontSize>>
      [] type = "rotate" -> <<snap.rotation>>
      [] type = "crop" -> <<snap.crop>>

SingleSession == entry # <<>> /\ ~isGroupId(entry[1].ia.blockId)
GroupSession == entry # <<>> /\ isGroupId(entry[1].ia.blockId)

GroupView(s, ia) ==
    [group |-> IF HasGroup(s, ia.blockId) THEN <<getGroupById(s, ia.blockId)>> ELSE <<>>,
     members |-> [id \in {i \in Range(ia.groupBlockIds) : HasBlock(s, i)} |->
                     [position |-> getBlockById(s, id).position,
                      size |-> getBlockById(s, id).size,
                      rotation |-> OrElse(getBlockById(s, id).rotation, 0),
                      fontSize |-> getBlockById(s, id).fontSize,
                      crop |-> getCropValues(getBlockById(s, id).crop)]]]

\* C6: pointer-up of a group session that changed the group record or a
\* member block pushes exactly one command, and undo right after returns the
\* group record and every member to their values at pointer-down.
C6_GroupGestureOneCommand ==
    /\ (last.op = "pointerUp" /\ GroupSession /\ entry[1].pure
           /\ GroupView(last.pre, entry[1].ia) # GroupView(entry[1].s, entry[1].ia)) =>
           Len(undoStack) = Len(last.pre.undoStack) + 1
    /\ (last.chain = 2 /\ GroupSession /\ entry[1].released
           /\ LastCmd.kind = "GroupTransform") =>
           GroupView(Store, entry[1].ia) = GroupView(entry[1].s, entry[1].ia)

\* C7: pointer-down on a single block, pointer-moves that all report the
\* pointer-down point, pointer-up: the undo list is as long as at
\* pointer-down and the redo list is the one of pointer-down.
C7_NoOpDragSingle ==
    (last.op = "pointerUp" /\ SingleSession /\ entry[1].still /\ entry[1].pure) =>
        /\ Len(undoStack) = Len(entry[1].s.undoStack)
        /\ redoStack = entry[1].s.redoStack

\* C8: pointer-down on a group and pointer-up with no pointer-move between
\* them push no command and leave the redo list as it was.
C8_GroupClickNoCommand ==
    (last.op = "pointerUp" /\ GroupSession /\ entry[1].moves = 0 /\ entry[1].pure) =>
        /\ undoStack = entry[1].s.undoStack
        /\ redoStack = entry[1].s.redoStack

\* C9: after a pointer-move at p the scene is the one a single pointer-move
\* at p gives from the state of pointer-down, however many pointer-moves
\* came between.
C9_MoveFromSnapshot ==
    (last.op = "pointerMove" /\ entry # <<>> /\ entry[1].pure
        /\ Exact(entry[1].s, entry[1].ia, last.p[1])) =>
        Scene(Store) = Scene(handlePointerMove(entry[1].s, entry[1].ia, last.p[1]))

\* C10: each document pointer listener is registered at most once, one
\* pointer-move event runs the move handler once, and after a pointer-up
\* (also one whose finalization throws) the session slot is empty and no
\* pointer listener is registered.
C10_ListenersOnce ==
    /\ moveListeners <= 1
    /\ upListeners <= 1
    /\ last.op = "pointerMove" =>
           /\ last.calls = 1
           /\ Scene(Store) = Scene(handlePointerMove(last.pre, interaction[1], last.p[1]))
    /\ last.op \in {"pointerUp", "pointerUpThrows"} =>
           /\ interaction = <<>>
           /\ moveListeners = 0
           /\ upListeners = 0

\* a pointer-down that found a session in the slot, a pointer-move, and a
\* pointer-up whose finalization threw
C10_Witness ==
    /\ last.op = "pointerUpThrows"
    /\ entry # <<>>
    /\ entry[1].over
    /\ entry[1].moves > 0

----------------------------------------------------------------------------
(* Further properties of the editor and the store.                        *)

\* the target of a pointer-down is locked in the store s
TargetLocked(s, id) ==
    IF isGroupId(id) THEN HasGroup(s, id) /\ getGroupById(s, id).locked
    ELSE HasBlock(s, id) /\ getBlockById(s, id).locked

\* C11: a pointer-down on a locked block or group starts no session, and no
\* pointer-move changes the geometry of a locked target or of its members.
C11_LockedNeverDrags ==
    /\ last.op = "pointerDown" => ~TargetLocked(Store, interaction[1].blockId)
    /\ (last.op = "pointerMove" /\ TargetLocked(entry[1].s, entry[1].ia.blockId)) =>
           Scene(Store) = Scene(last.pre)

\* the group of the current session, in the store
SessionGroup == getGroupById(Store, entry[1].ia.blockId)

C13_CropWithinBounds ==
    \A i \in DOMAIN blocks :
        (blocks[i].type = "image" /\ blocks[i].crop # <<>>) =>
            /\ \A v \in {blocks[i].crop[1].left, blocks[i].crop[1].right,
                         blocks[i].crop[1].top, blocks[i].crop[1].bottom} :
                   v >= 0 /\ v <= 100
            /\ blocks[i].crop[1].left + blocks[i].crop[1].right <= 100
            /\ blocks[i].crop[1].top + blocks[i].crop[1].bottom <= 100

\* a group crop scaled the insets of an image whose left inset a single
\* crop had taken to the far edge
C13_Witness ==
    /\ last.op = "pointerMove"
    /\ GroupSession
    /\ entry[1].ia.type = "crop"
    /\ \E i \in DOMAIN blocks :
           /\ blocks[i].crop # <<>>
           /\ last.pre.blocks[i].crop # <<>>
           /\ last.pre.blocks[i].crop[1].left + last.pre.blocks[i].crop[1].right > 90
           /\ blocks[i].crop[1].left + blocks[i].crop[1].right = 90

ZValues(s) == {s.blocks[i].zIndex : i \in DOMAIN s.blocks}
BlockIds(s) == {s.blocks[i].id : i \in DOMAIN s.blocks}

\* C14: after an arrange action the page's blocks have pairwise distinct
\* integer zIndex values and the ids they had before, and the undo of an
\* arrange command gives every block the zIndex it had before the action.
C14_ArrangeDistinctAndUndo ==
    /\ last.op = "arrange" =>
           /\ \A i, j \in DOMAIN blocks :
                  i # j => blocks[i].zIndex # blocks[j].zIndex
           /\ \A i \in DOMAIN blocks : blocks[i].zIndex \in Int
           /\ [i \in DOMAIN blocks |-> blocks[i].id]
                  = [i \in DOMAIN last.pre.blocks |-> last.pre.blocks[i].id]
    /\ (last.op = "undo" /\ last.chain = 2 /\ last.cmd[1].kind = "ZIndex") =>
           [i \in DOMAIN blocks |-> blocks[i].zIndex]
               = [i \in DOMAIN last.s0.blocks |-> last.s0.blocks[i].zIndex]

\* an arrange action on a page with two blocks of equal zIndex was undone
C14_Witness ==
    /\ last.op = "undo" /\ last.chain = 2 /\ last.cmd[1].kind = "ZIndex"
    /\ Cardinality(ZValues(Store)) < Len(blocks)
    /\ Cardinality(ZValues([blocks |-> last.s1.blocks])) = Len(blocks)
    /\ Cardinality(DOMAIN last.cmd[1].n) > 1

\* C15: when cmd.do throws inside applyCommand(cmd), cmd is pushed on the undo
\* list all the same and the redo list is cleared.
C15_ThrowingDoStillApplied ==
    (last.op = "applyCommand" /\ Do(last.pre, LastCmd).threw) =>
        /\ undoStack = Append(last.pre.undoStack, LastCmd)
        /\ redoStack = <<>>

\* C16: when the command's undo throws inside undo(), or its do throws inside
\* redo(), the command ends on the opposite list and the two lists together
\* hold as many commands as before.
C16_ThrowingUndoRedoTransfers ==
    /\ (last.op = "undo" /\ last.pre.undoStack # <<>> /\ Undo(last.pre, LastCmd).threw) =>
           /\ redoStack = Append(last.pre.redoStack, LastCmd)
           /\ Len(undoStack) + Len(redoStack)
                  = Len(last.pre.undoStack) + Len(last.pre.redoStack)
    /\ (last.op = "redo" /\ last.pre.redoStack # <<>> /\ Do(last.pre, LastCmd).threw) =>
           /\ undoStack = Append(last.pre.undoStack, LastCmd)
           /\ Len(undoStack) + Len(redoStack)
                  = Len(last.pre.undoStack) + Len(last.pre.redoStack)

\* C17: the undo list never holds more than a fixed number N of commands,
\* taken for N = MaxCommands - 1 in runs that apply N + 1 commands.
C17_HistoryBounded == Len(undoStack) < MaxCommands

\* C18: deleting a group pushes one command whose do removes the group record
\* and every member block and leaves no block with that groupId; undoing it
\* brings back every removed block and the group record with its members.
C18_DeleteGroupAndUndo ==
    /\ last.op = "deleteGroup" =>
           /\ undoStack = Append(last.pre.undoStack, LastCmd)
           /\ ~HasGroup(Store, LastCmd.groupId)
           /\ \A id \in Range(LastCmd.groupSnapshot.childIds) : ~HasBlock(Store, id)
           /\ \A i \in DOMAIN blocks : blocks[i].groupId # LastCmd.groupId
    /\ (last.op = "undo" /\ last.chain = 2 /\ LastCmd.kind = "DeleteGroup") =>
           /\ \A i \in DOMAIN LastCmd.blockSnapshots :
                  /\ HasBlock(Store, LastCmd.blockSnapshots[i].block.id)
                  /\ getBlockById(Store, LastCmd.blockSnapshots[i].block.id)
                         = LastCmd.blockSnapshots[i].block
           /\ HasGroup(Store, LastCmd.groupId)
           /\ getGroupById(Store, LastCmd.groupId).childIds
                  = LastCmd.groupSnapshot.childIds

\* the block a single delete named, when the step taken last was one and the
\* block was on the page
DeletedBlock ==
    IF last.op = "removeBlock" THEN last.p
    ELSE IF last.op \in {"applyCommand", "deleteBlock"} /\ last.cmd # <<>>
            /\ LastCmd.kind = "DeleteBlock"
    THEN <<LastCmd.blockId>>
    ELSE <<>>

\* C19: deleting a single block takes its id out of the childIds of every
\* group that listed it, and every group stays in the store, one left
\* without children too.
C19_DeleteBlockKeepsGroups ==
    (DeletedBlock # <<>> /\ HasBlock(last.pre, DeletedBlock[1])) =>
        /\ ~HasBlock(Store, DeletedBlock[1])
        /\ DOMAIN groups = DOMAIN last.pre.groups
        /\ \A i \in DOMAIN groups :
               /\ groups[i].id = last.pre.groups[i].id
               /\ groups[i].childIds
                      = SelectSeq(last.pre.groups[i].childIds,
                                  LAMBDA id : id # DeletedBlock[1])

\* the delete took the last child of a group
C19_Witness ==
    /\ DeletedBlock # <<>>
    /\ HasBlock(last.pre, DeletedBlock[1])
    /\ \E i \in DOMAIN groups :
           /\ groups[i].childIds = <<>>
           /\ last.pre.groups[i].childIds = <<DeletedBlock[1]>>

\* C20: no group record has an empty childIds.
C20_NoEmptyGroup ==
    \A i \in DOMAIN groups : groups[i].childIds # <<>>

----------------------------------------------------------------------------
(* Properties of grouping, the store's no-ops and single block gestures.   *)

\* the scene with the group records as a set: their order in the store's
\* array is not part of it
SceneOf(blks, grps) == [blocks |-> blks, groups |-> Range(grps)]

\* the group an ungroup named, as the store held it before the step
UngroupedBefore == getGroupById(last.pre, LastCmd.groupId)

\* the step taken last ran a command on a group that handleCreateGroup made
OnCreatedGroup ==
    \E i \in DOMAIN last.pre.undoStack :
        /\ last.pre.undoStack[i].kind = "CreateGroup"
        /\ last.pre.undoStack[i].groupId = LastCmd.groupId

\* C21: ungrouping a group made by handleCreateGroup clears groupId on every
\* member, gives each member the zIndex recorded at group creation and
\* removes the group record; undoing it right away gives back the scene
\* before the ungroup.
C21_UngroupAndUndo ==
    /\ (last.op = "ungroup" /\ OnCreatedGroup) =>
           /\ ~HasGroup(Store, LastCmd.groupId)
           /\ \A id \in Range(UngroupedBefore.childIds) :
                  HasBlock(Store, id) =>
                      /\ getBlockById(Store, id).groupId = NoGroup
                      /\ id \in DOMAIN UngroupedBefore.meta
                      /\ getBlockById(Store, id).zIndex = UngroupedBefore.meta[id]
    /\ (last.op = "undo" /\ last.chain = 2 /\ LastCmd.kind = "UngroupGroup"
           /\ OnCreatedGroup) =>
           SceneOf(blocks, groups) = SceneOf(last.s0.blocks, last.s0.groups)

\* the argument of the direct store call taken last
CallArg == last.p[1]

\* C22: after updateGroup(id, {childIds: new}) on an existing group with the
\* child list old, every block in new and not in old has groupId = id, every
\* block in old and not in new that had groupId = id has none, blocks in
\* neither list keep their groupId, and the group's childIds is new.
C22_UpdateGroupChildIds ==
    (last.op = "updateGroup" /\ HasGroup(last.pre, CallArg.id)) =>
        /\ getGroupById(Store, CallArg.id).childIds = CallArg.childIds
        /\ DOMAIN blocks = DOMAIN last.pre.blocks
        /\ \A i \in DOMAIN blocks :
               LET inNew == blocks[i].id \in Range(CallArg.childIds)
                   inOld == blocks[i].id
                                \in Range(getGroupById(last.pre, CallArg.id).childIds)
               IN  /\ (inNew /\ ~inOld) => blocks[i].groupId = CallArg.id
                   /\ (inOld /\ ~inNew /\ last.pre.blocks[i].groupId = CallArg.id) =>
                          blocks[i].groupId = NoGroup
                   /\ (~inOld /\ ~inNew) => blocks[i].groupId = last.pre.blocks[i].groupId

\* a child list replaced by one that drops a member and adds another
C22_Witness ==
    /\ last.op = "updateGroup"
    /\ HasGroup(last.pre, CallArg.id)
    /\ \E i, j \in DOMAIN blocks :
           /\ blocks[i].groupId = CallArg.id /\ last.pre.blocks[i].groupId = NoGroup
           /\ blocks[j].groupId = NoGroup /\ last.pre.blocks[j].groupId = CallArg.id

\* C23: updateBlock, updateGroup, removeGroup and removeBlock addressed to an
\* id that is not in the store leave the store as it was.
C23_MissingEntityNoOp ==
    (\/ last.op \in {"updateBlock", "removeBlock"} /\ ~HasBlock(last.pre, CallArg)
     \/ last.op = "removeGroup" /\ ~HasGroup(last.pre, CallArg)
     \/ last.op = "updateGroup" /\ ~HasGroup(last.pre, CallArg.id)) =>
        Store = last.pre

\* C24: no group's childIds names a block twice.
C24_ChildIdsUnique ==
    \A i \in DOMAIN groups :
        Cardinality(Range(groups[i].childIds)) = Len(groups[i].childIds)

\* the angle by which the pointer turned in the rotate session that ended in
\* the command c: the one of the session's angles that takes c's old rotation
\* to its new one
GestureAngle(c) ==
    CHOOSE d \in {-180, -90, 0, 90} : JsRem(d + c.oldR[1], 360) = c.newR[1]

\* the two commands on top of the undo list, the older first
TopTwo == SubSeq(undoStack, Len(undoStack) - 1, Len(undoStack))

\* the last two commands are rotate sessions on one single block, the second
\* turning back by the angle of the first
RotatedThereAndBack ==
    /\ last.op = "pointerUp"
    /\ entry # <<>> /\ entry[1].released
    /\ Len(undoStack) >= 2
    /\ last.cmd = <<TopTwo[2]>>
    /\ TopTwo[1].kind = "Rotate" /\ TopTwo[2].kind = "Rotate"
    /\ ~isGroupId(TopTwo[1].blockId)
    /\ TopTwo[1].blockId = TopTwo[2].blockId
    /\ TopTwo[2].oldR = TopTwo[1].newR
    /\ GestureAngle(TopTwo[2]) = -GestureAngle(TopTwo[1])

\* C25: a committed rotate session on a single block by an angle, followed by
\* a committed rotate session by the opposite angle, leaves the block with the
\* rotation and position it had before the first.
C25_RotateRoundTrip ==
    RotatedThereAndBack =>
        /\ getBlockById(Store, TopTwo[1].blockId).rotation = TopTwo[1].oldR
        /\ getBlockById(Store, TopTwo[1].blockId).position
               = getBlockById(entry[1].s, TopTwo[1].blockId).position

\* the session's initial rotation plus the change of the pointer's angle at
\* the position e, normalized into [0, 360)
NormalizedTurn(ia, e) ==
    (ia.rot[1].initialRotation + (PointerAngle(ia, e) - ia.rot[1].startAngle)) % 360

\* the rotation the store holds for the block or group a session is on
RotationOf(s, id) ==
    IF isGroupId(id) THEN getGroupById(s, id).rotation
    ELSE OrElse(getBlockById(s, id).rotation, 0)

\* C29: after a pointer-move of a rotate session, the rotation written to the
\* rotated block or group is the initial rotation plus the change of the
\* pointer's angle, normalized into [0, 360).
C29_RotationNormalized ==
    (/\ last.op = "pointerMove"
     /\ interaction # <<>>
     /\ interaction[1].type = "rotate"
     /\ interaction[1].rot # <<>>
     /\ last.calls > 0)
        => /\ RotationOf(Store, interaction[1].blockId)
                  = NormalizedTurn(interaction[1], last.p[1])
           /\ RotationOf(Store, interaction[1].blockId) \in 0..359

\* C26: undo() with an empty undo list and redo() with an empty redo list
\* leave blocks, groups and both history lists as they were; canUndo and
\* canRedo tell whether the respective list holds a command.
C26_EmptyHistoryNoOp ==
    /\ (last.op = "undo" /\ last.pre.undoStack = <<>>) => Store = last.pre
    /\ (last.op = "redo" /\ last.pre.redoStack = <<>>) => Store = last.pre
    /\ canUndo(Store) <=> undoStack # <<>>
    /\ canRedo(Store) <=> redoStack # <<>>

C26_Witness ==
    /\ last.op = "undo"
    /\ last.pre.undoStack = <<>>
    /\ last.pre.redoStack # <<>>
    /\ canRedo(Store) /\ ~canUndo(Store)

\* the block a DeleteBlock command took out of the page
DeletedSnapshot == LastCmd.oldBlock[1]

\* a DeleteBlock command on a block listed by the group it names was applied
\* and undone right after
GroupedDeleteUndone ==
    /\ last.op = "undo" /\ last.chain = 2
    /\ LastCmd.kind = "DeleteBlock"
    /\ LastCmd.oldBlock # <<>>
    /\ DeletedSnapshot.groupId # NoGroup
    /\ \E g \in Range(last.s0.groups) :
           g.id = DeletedSnapshot.groupId /\ DeletedSnapshot.id \in Range(g.childIds)

\* C27: for a block that belongs to a group, DeleteBlockCommand followed by
\* undo() puts the block back at its index in the page, and the group named
\* by the restored block's groupId lists the block's id again.
C27_DeleteBlockUndoRestoresGroup ==
    GroupedDeleteUndone =>
        /\ blocks = last.s0.blocks
        /\ HasGroup(Store, DeletedSnapshot.groupId)
        /\ DeletedSnapshot.id \in Range(getGroupById(Store, DeletedSnapshot.groupId).childIds)

\* a pointer-move of a crop session on a single image ran the handler
SingleCropMoved ==
    /\ last.op = "pointerMove"
    /\ last.calls > 0
    /\ interaction # <<>>
    /\ interaction[1].type = "crop"
    /\ interaction[1].handle # <<>>
    /\ ~isGroupId(interaction[1].blockId)
    /\ interaction[1].blockSnapshot.type = "image"
    /\ HasBlock(Store, interaction[1].blockId)

\* the crop of the session's image in the store, and in the session's snapshot
CropNow == getCropValues(getBlockById(Store, interaction[1].blockId).crop)
CropSnapshot == getCropValues(interaction[1].blockSnapshot.crop)

\* the pointer's horizontal delta in percent of the snapshot's width
DraggedPercentX ==
    (100 * (last.p[1].x - interaction[1].startX))
        \div WidthOf(interaction[1].blockSnapshot)

\* C28: a crop session on a single image changes only the inset of its handle:
\* the other three insets keep their snapshot values at every pointer
\* position, and left + right <= 99 and top + bottom <= 99; from crop 0/0/0/0
\* the left handle dragged inward by 10% of the width gives left = 10 and
\* leaves right, top and bottom at 0.
C28_CropMovesOneInset ==
    /\ SingleCropMoved =>
           /\ \A k \in {"left", "right", "top", "bottom"} \ {interaction[1].handle[1]} :
                  CropNow[k] = CropSnapshot[k]
           /\ CropNow.left + CropNow.right <= 99
           /\ CropNow.top + CropNow.bottom <= 99
           /\ (/\ interaction[1].handle = <<"left">>
               /\ CropSnapshot = getCropValues(<<>>)
               /\ DraggedPercentX \in 0..99)
                  => CropNow = [getCropValues(<<>>) EXCEPT !.left = DraggedPercentX]
    /\ NudgeVertical(NudgeHorizontal(
           SingleCropEdges(getCropValues(<<>>), <<"left">>, 10, 0), <<"left">>), <<"left">>)
           = [left |-> 10, right |-> 0, top |-> 0, bottom |-> 0]

\* the left handle of an image without a crop was dragged inward, and in an
\* earlier session its right handle had been dragged past the far edge
C28_Witness ==
    /\ SingleCropMoved
    /\ interaction[1].handle = <<"left">>
    /\ CropSnapshot.right = 99
    /\ CropNow.left = 0
    /\ last.p[1].x > interaction[1].startX

\* a pointer-move of a resize session on a single block ran the handler
SingleResizeMoved ==
    /\ last.op = "pointerMove"
    /\ last.calls > 0
    /\ interaction # <<>>
    /\ interaction[1].type = "resize"
    /\ interaction[1].handle # <<>>
    /\ ~isGroupId(interaction[1].blockId)
    /\ hasNumericSize(interaction[1].blockSnapshot)
    /\ HasBlock(Store, interaction[1].blockId)

ResizedNow == getBlockById(Store, interaction[1].blockId)
ResizeSnapshot == interaction[1].blockSnapshot

\* the edge opposite to the handle is where the snapshot has it
OppositeEdgeKept(b, snap, handle) ==
    /\ Includes(handle, "right") => b.position.x = snap.position.x
    /\ Includes(handle, "left") =>
           b.position.x + WidthOf(b) = snap.position.x + WidthOf(snap)
    /\ Includes(handle, "bottom") => b.position.y = snap.position.y
    /\ (Includes(handle, "top") /\ snap.size[1].height # <<>>) =>
           b.position.y + HeightOf(b) = snap.position.y + HeightOf(snap)

\* a page with one image of size 50x50 at (10, 10), the resize session on its
\* bottom-right handle, the store after the pointer moved by (20, 0), and the
\* store after pointer-up
SquareStore ==
    [blocks |-> <<Block(<<"i1">>, "image", Pos(10, 10), Size(50, 50), <<0>>, <<>>, 1)>>,
     groups |-> <<>>, undoStack |-> <<>>, redoStack |-> <<>>]
SquareSession ==
    beginInteraction(SquareStore, "resize", <<"i1">>, <<"bottom-right">>, Pos(200, 200))[1]
SquareResized == handlePointerMove(SquareStore, SquareSession, Pos(220, 200))
SquareCommitted ==
    applyCommand(SquareResized, FinalCommand(SquareResized, SquareSession)[1])

\* C30: in a resize session on a single block the edge opposite to the dragged
\* handle stays where the snapshot has it, for every handle and pointer
\* position; undo of the session's command gives the block the snapshot's size
\* and position; a block at (10, 10) of size 50x50 whose bottom-right handle is
\* dragged by (20, 0) gets size 70x50 at (10, 10), and 50x50 again after undo.
C30_ResizeKeepsOppositeEdge ==
    /\ SingleResizeMoved =>
           OppositeEdgeKept(ResizedNow, ResizeSnapshot, interaction[1].handle)
    /\ (/\ last.op = "undo" /\ last.chain = 2
        /\ LastCmd.kind = "Resize"
        /\ ~isGroupId(LastCmd.blockId)
        /\ HasBlock(Store, LastCmd.blockId)) =>
           /\ getBlockById(Store, LastCmd.blockId).size = LastCmd.oldS
           /\ getBlockById(Store, LastCmd.blockId).position = LastCmd.oldP[1]
    /\ getBlockById(SquareResized, <<"i1">>).size = Size(70, 50)
    /\ getBlockById(SquareResized, <<"i1">>).position = Pos(10, 10)
    /\ getBlockById(SquareCommitted, <<"i1">>).size = Size(70, 50)
    /\ getBlockById(undo(SquareCommitted), <<"i1">>).size = Size(50, 50)
    /\ getBlockById(undo(SquareCommitted), <<"i1">>).position = Pos(10, 10)

\* a left handle was dragged inward: the left edge followed the pointer and
\* the block became narrower
C30_Witness ==
    /\ SingleResizeMoved
    /\ Includes(interaction[1].handle, "left")
    /\ last.p[1].x > interaction[1].startX
    /\ ResizedNow.position.x = ResizeSnapshot.position.x + (last.p[1].x - interaction[1].startX)
    /\ WidthOf(ResizedNow) < WidthOf(ResizeSnapshot)

----------------------------------------------------------------------------
(* Properties of sizes, stacking, history and the commit at pointer-up.    *)

\* C31: after a pointer-move of a resize session on a single block, the
\* block's width is at least 40 (at least 20 for a text block resized from its
\* top-left handle) and its height, when it has one, is at least 40.
C31_ResizeMinimumSize ==
    SingleResizeMoved =>
        /\ WidthOf(ResizedNow) >=
               (IF ResizeSnapshot.type = "text" /\ interaction[1].handle = <<"top-left">>
                THEN 20 ELSE 40)
        /\ ResizedNow.size[1].height # <<>> => HeightOf(ResizedNow) >= 40

\* the positions in the page of the blocks a CreateGroup command lists
MemberIndexes == {i \in DOMAIN blocks : blocks[i].id \in Range(LastCmd.groupMeta.childIds)}

MemberZ == {blocks[i].zIndex : i \in MemberIndexes}

\* C32: after handleCreateGroup every member's zIndex is above every other
\* block's, the members' zIndex values are consecutive integers in the order
\* of the members' previous zIndex, and the undo of the creation gives every
\* member the zIndex it had before, no groupId, and removes the group record.
C32_CreateGroupLiftsAndUndo ==
    /\ (last.op = "createGroup" /\ last.chain = 1) =>
           /\ \A i \in MemberIndexes : \A j \in DOMAIN blocks \ MemberIndexes :
                  blocks[i].zIndex > blocks[j].zIndex
           /\ Cardinality(MemberZ) = Cardinality(MemberIndexes)
           /\ MemberZ = SetMin(MemberZ)..(SetMin(MemberZ) + Cardinality(MemberIndexes) - 1)
           /\ \A i, j \in MemberIndexes :
                  last.pre.blocks[i].zIndex < last.pre.blocks[j].zIndex
                      => blocks[i].zIndex < blocks[j].zIndex
    /\ (last.op = "undo" /\ last.cmd # <<>> /\ LastCmd.kind = "CreateGroup"
        /\ Len(redoStack) = Len(last.pre.redoStack) + 1) =>
           /\ ~HasGroup(Store, LastCmd.groupId)
           /\ \A i \in MemberIndexes :
                  /\ blocks[i].zIndex = LastCmd.originalZ[blocks[i].id]
                  /\ blocks[i].groupId = NoGroup
                  /\ last.chain = 2 => blocks[i].zIndex = last.s0.blocks[i].zIndex

\* the creation of a group was undone after other commands had been applied
\* and undone in between
C32_Witness ==
    /\ last.op = "undo" /\ last.cmd # <<>> /\ LastCmd.kind = "CreateGroup"
    /\ last.chain # 2
    /\ Len(redoStack) >= 2
    /\ MemberIndexes # {}
    /\ \E i \in MemberIndexes : last.pre.blocks[i].zIndex # blocks[i].zIndex

C34_GroupMergeUndo ==
    (/\ last.op = "undo" /\ last.chain = 2
     /\ LastCmd.kind = "Group"
     /\ ~LastCmd.createdGroup
     /\ \E g \in Range(last.s0.groups) : g.id = LastCmd.groupId) =>
        /\ HasGroup(Store, LastCmd.groupId)
        /\ \A g \in Range(last.s0.groups) :
               g.id = LastCmd.groupId =>
                   getGroupById(Store, LastCmd.groupId).childIds = g.childIds
        /\ \A i \in DOMAIN blocks : blocks[i].groupId = last.s0.blocks[i].groupId
        /\ Scene(Store) = last.s0

\* C36: every group's blockIds holds the ids of its childIds, in the same
\* order.
C36_BlockIdsAliasChildIds ==
    \A i \in DOMAIN groups : groups[i].blockIds = groups[i].childIds

\* store.undo() called until the undo list is empty, at most n times
RECURSIVE UndoAll(_, _)
UndoAll(s, n) ==
    IF n = 0 \/ s.undoStack = <<>> THEN s ELSE UndoAll(undo(s), n - 1)

\* position, size and rotation of every block and group
Geometry(s) ==
    [blocks |-> {[id |-> b.id, position |-> b.position, size |-> b.size,
                  rotation |-> OrElse(b.rotation, 0)] : b \in Range(s.blocks)},
     groups |-> {[id |-> g.id, position |-> g.position, size |-> g.size,
                  rotation |-> g.rotation] : g \in Range(s.groups)}]

InitialStore ==
    [blocks |-> InitialBlocks, groups |-> <<>>, undoStack |-> <<>>, redoStack |-> <<>>]

\* C35: whenever no session is active, undoing until the undo list is empty
\* gives every block and group the geometry of the initial scene.
C35_HistoryCoversGestures ==
    interaction = <<>> =>
        /\ UndoAll(Store, Len(undoStack)).undoStack = <<>>
        /\ Geometry(UndoAll(Store, Len(undoStack))) = Geometry(InitialStore)

\* C37: after removeGroup(id) on a group of the store no block carries
\* groupId = id.
C37_RemoveGroupDetachesAll ==
    (last.op = "removeGroup" /\ HasGroup(last.pre, CallArg)) =>
        \A i \in DOMAIN blocks : blocks[i].groupId # CallArg

\* content of the block in the scene of a store
ContentIn(s, blockId) == getBlockById(s, blockId).content

\* C38: when a text edit ends, a command is pushed only if the block's content
\* differs from the content it had when the edit began, and undoing that
\* command right away gives the block the content it had when the edit began.
C38_TextEditCommand ==
    /\ (last.op = "stopEditing" /\ last.chain = 1)
           => ContentIn(Store, entry[1].ia.blockId) # ContentIn(entry[1].s, entry[1].ia.blockId)
    /\ (last.op = "undo" /\ last.chain = 2 /\ last.cmd[1].kind = "TextChange")
           => ContentIn(Store, entry[1].ia.blockId) = ContentIn(entry[1].s, entry[1].ia.blockId)

\* the ids of a page's blocks, in the page's order
IdOrder(bs) == [i \in DOMAIN bs |-> bs[i].id]

\* C39: undoing a group deletion right away leaves the page's blocks in the
\* order they had before the deletion, whatever the order of the group's
\* childIds.
C39_DeleteGroupUndoKeepsOrder ==
    (last.op = "undo" /\ last.chain = 2 /\ last.cmd[1].kind = "DeleteGroup")
        => IdOrder(blocks) = IdOrder(last.s0.blocks)

====
